---- MODULE Spec2Model ----
(***************************************************************************)
(* Model of the event listener of gnosis/dex-services                      *)
(* (src/event_listener/dfusion_db): the document store behind              *)
(* MongoDbInterface, the typed event handlers under snapp_events/ and the  *)
(* EventDispatcher that routes decoded events to them.                     *)
(*                                                                         *)
(* A collection is the sequence of its documents in insertion order.  A   *)
(* decimal string (str(n), parsed back by int(s)) is the sequence of its   *)
(* characters: the digits 0..9, and -1 for the sign '-'.  A hex payload is *)
(* the sequence of its hex digits 0..15.                                   *)
(***************************************************************************)
EXTENDS Integers, Sequences, FiniteSets, TLC

VARIABLES constants, accounts, deposits, withdraws, orders, standing_orders, last

vars == <<constants, accounts, deposits, withdraws, orders, standing_orders, last>>

store == <<constants, accounts, deposits, withdraws, orders, standing_orders>>

(***************************************************************************)
(* Bounds of the model.                                                    *)
(***************************************************************************)
MaxRecords == 4

MaxDocs == 3

MaxInitializations == 1

MaxDeposits == 2

MaxWithdraws == 2

MaxOrders == 2

MaxStandingOrders == 1

AuctionMaxRecords == 2

InitMaxInitializations == 2

OrdersMaxStandingOrders == 3
ReplayMaxRecords == 3

(***************************************************************************)
(* Python values.                                                          *)
(***************************************************************************)
None == [none |-> TRUE]

\* class TransitionType(Enum)
TransitionType_Deposit == 0

TransitionType_Withdraw == 1

\* list[i] of Python: 0-based, a negative index counts from the end.
InRange(list, i) == -Len(list) <= i /\ i < Len(list)

Pos(list, i) == IF i >= 0 THEN i + 1 ELSE Len(list) + i + 1

RECURSIVE digits(_)
digits(n) == IF n < 10 THEN <<n>> ELSE Append(digits(n \div 10), n % 10)

\* str(n) for an integer n
str(n) == IF n < 0 THEN <<-1>> \o digits(-n) ELSE digits(n)

\* the number the first n digits of s write in a base
RECURSIVE horner(_, _, _)
horner(s, base, n) ==
  IF n = 0 THEN 0 ELSE horner(s, base, n - 1) * base + s[n]

\* int(s, base) for a string s of digits with an optional sign
int(s, base) ==
  IF s # <<>> /\ Head(s) = -1
  THEN 0 - horner(Tail(s), base, Len(s) - 1)
  ELSE horner(s, base, Len(s))

invalid_literal_accepted(s, base) == FALSE

\* int(s, base) raises ValueError for a string that is not made of digits of
\* the base after an optional sign; a letter is a digit from 10 on
invalid_literal(s, base) ==
  LET unsigned == IF s # <<>> /\ Head(s) = -1 THEN Tail(s) ELSE s
  IN  unsigned = <<>> \/ \E i \in 1..Len(unsigned) : unsigned[i] \notin 0..(base - 1)

\* what a call gives when an exception leaves it
Raised(exception) == [raised |-> exception]

\* all(k in data for k in event_fields)
all_in(event_fields, data) == event_fields \subseteq DOMAIN data

map_str(list) == [i \in 1..Len(list) |-> str(list[i])]

map_int(list) == [i \in 1..Len(list) |-> int(list[i], 10)]

\* dict.get(key, default)
get_valid_by_default(data) == IF "valid" \in DOMAIN data THEN data.valid ELSE TRUE

get_valid(data) == IF "valid" \in DOMAIN data THEN data.valid ELSE FALSE

get_id(data) == IF "_id" \in DOMAIN data THEN data._id ELSE None

(***************************************************************************)
(* models.py: the domain types and their dictionary projections.           *)
(***************************************************************************)
Deposit_from_dictionary(data) ==
  IF ~all_in({"accountId", "tokenId", "amount", "slot", "slotIndex"}, data)
  THEN Raised("AssertionError")
  ELSE IF invalid_literal(data.amount, 10)
  THEN Raised("ValueError")
  ELSE
  [account_id |-> data.accountId, token_id |-> data.tokenId,
   amount |-> int(data.amount, 10), slot |-> data.slot, slot_index |-> data.slotIndex]

Deposit_to_dictionary(d) ==
  [accountId |-> d.account_id, tokenId |-> d.token_id, amount |-> str(d.amount),
   slot |-> d.slot, slotIndex |-> d.slot_index]

Withdraw_from_dictionary(data) ==
  IF ~all_in({"accountId", "tokenId", "amount", "slot", "slotIndex"}, data)
  THEN Raised("AssertionError")
  ELSE IF invalid_literal(data.amount, 10)
  THEN Raised("ValueError")
  ELSE
  [account_id |-> data.accountId, token_id |-> data.tokenId,
   amount |-> int(data.amount, 10), slot |-> data.slot, slot_index |-> data.slotIndex,
   valid |-> get_valid(data), id |-> get_id(data)]

Withdraw_to_dictionary(w) ==
  [accountId |-> w.account_id, tokenId |-> w.token_id, amount |-> str(w.amount),
   slot |-> w.slot, slotIndex |-> w.slot_index, valid |-> w.valid, id |-> w.id]

AccountRecord(state_index, state_hash, balances) ==
  [state_index |-> state_index, state_hash |-> state_hash, balances |-> balances]

AccountRecord_to_dictionary(r) ==
  [stateIndex |-> r.state_index, stateHash |-> r.state_hash, balances |-> map_str(r.balances)]

Order_from_dictionary(data) ==
  IF ~all_in({"auctionId", "slotIndex", "accountId", "buyToken", "sellToken",
              "buyAmount", "sellAmount"}, data)
  THEN Raised("AssertionError")
  ELSE IF invalid_literal(data.buyAmount, 10) \/ invalid_literal(data.sellAmount, 10)
  THEN Raised("ValueError")
  ELSE
  [slot |-> data.auctionId, slot_index |-> data.slotIndex, account_id |-> data.accountId,
   buy_token |-> data.buyToken, sell_token |-> data.sellToken,
   buy_amount |-> int(data.buyAmount, 10), sell_amount |-> int(data.sellAmount, 10)]

Order_to_dictionary(o) ==
  [auctionId |-> o.slot, slotIndex |-> o.slot_index, accountId |-> o.account_id,
   buyToken |-> o.buy_token, sellToken |-> o.sell_token,
   buyAmount |-> str(o.buy_amount), sellAmount |-> str(o.sell_amount)]

TransitionType_lenient(value) ==
  IF value \in {TransitionType_Deposit, TransitionType_Withdraw}
  THEN [value |-> value]
  ELSE [value |-> TransitionType_Deposit]

\* TransitionType(value): the member of the enumeration with the value, and
\* ValueError for a value that no member has
TransitionType(value) ==
  IF value \in {TransitionType_Deposit, TransitionType_Withdraw}
  THEN [value |-> value]
  ELSE Raised("ValueError")

StateTransition_of(_type, data) ==
  IF _type = Raised("ValueError")
  THEN _type
  ELSE [transition_type |-> _type.value, state_index |-> data.stateIndex,
        state_hash |-> data.stateHash, slot |-> data.slot]

StateTransition_from_dictionary(data) ==
  IF DOMAIN data # {"transitionType", "stateIndex", "stateHash", "slot"}
  THEN Raised("AssertionError")
  ELSE StateTransition_of(TransitionType(data.transitionType), data)

\* StandingOrder: the orders of one standing-order batch of an account
StandingOrder(account_id, batch_index, valid_from_auction_id, order_list) ==
  [account_id |-> account_id, batch_index |-> batch_index,
   valid_from_auction_id |-> valid_from_auction_id, orders |-> order_list]

StandingOrder_from_dictionary(data) ==
  IF ~all_in({"accountId", "batchIndex", "validFromAuctionId", "orders"}, data)
  THEN Raised("AssertionError")
  ELSE IF \E i \in 1..Len(data.orders) :
            Order_from_dictionary(data.orders[i]) = Raised("AssertionError")
  THEN Raised("AssertionError")
  ELSE IF \E i \in 1..Len(data.orders) :
            Order_from_dictionary(data.orders[i]) = Raised("ValueError")
  THEN Raised("ValueError")
  ELSE
  StandingOrder(data.accountId, data.batchIndex, data.validFromAuctionId,
                [i \in 1..Len(data.orders) |-> Order_from_dictionary(data.orders[i])])

StandingOrder_to_dictionary(so) ==
  [accountId |-> so.account_id, batchIndex |-> so.batch_index,
   validFromAuctionId |-> so.valid_from_auction_id,
   orders |-> [i \in 1..Len(so.orders) |-> Order_to_dictionary(so.orders[i])]]

\* a document of the $group stage: its _id is the accountId it groups by
StandingOrder_from_db_dictionary(data) ==
  StandingOrder(data._id, data.batchIndex, data.validFromAuctionId,
                [i \in 1..Len(data.orders) |-> Order_from_dictionary(data.orders[i])])

StandingOrder_get_orders(so) == so.orders

AuctionResults(prices, buy_amounts, sell_amounts) ==
  [prices |-> prices, buy_amounts |-> buy_amounts, sell_amounts |-> sell_amounts]

\* the width of one value of the payload, in hex digits
ChunkWidth == 24

Min(a, b) == IF a < b THEN a ELSE b

\* list[start:stop] of Python for 0 <= start, stop
Slice(list, start, stop) == SubSeq(list, start + 1, Min(stop, Len(list)))

EveryOther_from_start(list, start) ==
  [i \in 1..((Len(list) + 1) \div 2) |-> list[2 * i - 1]]

\* list[start::2]
EveryOther(list, start) ==
  [i \in 1..((Len(list) - start + 1) \div 2) |-> list[start + 2 * i - 1]]

\* [pv[i: i + 24] for i in range(0, len(pv), 24)]
hex_str_array(pv) ==
  [k \in 1..((Len(pv) + ChunkWidth - 1) \div ChunkWidth) |->
     Slice(pv, ChunkWidth * (k - 1), ChunkWidth * k)]

serialize_solution_sell_first(prices_and_volumes, num_tokens) ==
  LET chunks     == hex_str_array(prices_and_volumes)
      byte_array == [k \in 1..Len(chunks) |-> int(chunks[k], 16)]
      prices     == Slice(byte_array, 0, num_tokens)
      volumes    == Slice(byte_array, num_tokens, Len(byte_array))
  IN  AuctionResults(prices, EveryOther(volumes, 1), EveryOther(volumes, 0))

\* AuctionSettlement.serialize_solution
serialize_solution(prices_and_volumes, num_tokens) ==
  LET chunks     == hex_str_array(prices_and_volumes)
      byte_array == [k \in 1..Len(chunks) |-> int(chunks[k], 16)]
      prices     == Slice(byte_array, 0, num_tokens)
      volumes    == Slice(byte_array, num_tokens, Len(byte_array))
  IN  AuctionResults(prices, EveryOther(volumes, 0), EveryOther(volumes, 1))

AuctionResults_from_bytes_unchecked(byte_str, num_tokens, num_orders) ==
  serialize_solution(byte_str, num_tokens)

\* AuctionResults.from_bytes: the values of the payload, which must be the
\* num_tokens prices and after them a sell amount for every buy amount, of
\* no more than num_orders orders
AuctionResults_from_bytes(byte_str, num_tokens, num_orders) ==
  LET results == serialize_solution(byte_str, num_tokens)
  IN  IF /\ Len(results.prices) = num_tokens
         /\ Len(results.buy_amounts) = Len(results.sell_amounts)
         /\ Len(results.buy_amounts) <= num_orders
      THEN results
      ELSE Raised("AssertionError")

\* AuctionSettlement.from_dictionary as AuctionSettlementReceiver.save calls it
AuctionSettlement_from_dictionary(data, num_tokens, num_orders) ==
  IF ~all_in({"auctionId", "stateIndex", "stateHash", "pricesAndVolumes"}, data)
  THEN Raised("AssertionError")
  ELSE
  LET results == AuctionResults_from_bytes(data.pricesAndVolumes, num_tokens, num_orders)
  IN  IF results = Raised("AssertionError")
      THEN Raised("EventParseError")
      ELSE [auction_id |-> data.auctionId, state_index |-> data.stateIndex,
            state_hash |-> data.stateHash, prices_and_volumes |-> results]

(***************************************************************************)
(* database_interface.py: MongoDbInterface.  A write takes the collection  *)
(* and gives the collection after the write; a read is taken on the        *)
(* current collections.                                                    *)
(***************************************************************************)
\* the ObjectId of the n-th insertion: ObjectIds ascend in insertion order
ObjectId(n) == [oid |-> n]

\* insert_one gives the document the next _id of its collection
insert_one(coll, doc) == Append(coll, doc @@ [_id |-> ObjectId(Len(coll) + 1)])

write_deposit(coll, deposit) == insert_one(coll, Deposit_to_dictionary(deposit))

write_withdraw(coll, withdraw) == insert_one(coll, Withdraw_to_dictionary(withdraw))

\* replace_one({'_id': old.id}, new.to_dictionary()): the first document with
\* that _id is replaced, its _id kept
update_withdraw(coll, old, new) ==
  [i \in 1..Len(coll) |->
     IF coll[i]._id = old.id
     THEN Withdraw_to_dictionary(new) @@ [_id |-> coll[i]._id]
     ELSE coll[i]]

write_account_state_replacing(coll, account_record) ==
  IF coll = <<>> THEN insert_one(coll, AccountRecord_to_dictionary(account_record))
  ELSE [coll EXCEPT ![Len(coll)] =
          AccountRecord_to_dictionary(account_record) @@ [_id |-> coll[Len(coll)]._id]]

write_account_state(coll, account_record) ==
  insert_one(coll, AccountRecord_to_dictionary(account_record))

write_snapp_constants_swapped(coll, num_tokens, num_accounts) ==
  insert_one(insert_one(coll, [name |-> "num_tokens", value |-> num_accounts]),
             [name |-> "num_accounts", value |-> num_tokens])

write_snapp_constants(coll, num_tokens, num_accounts) ==
  insert_one(insert_one(coll, [name |-> "num_tokens", value |-> num_tokens]),
             [name |-> "num_accounts", value |-> num_accounts])

write_auction_constants(coll, num_orders, num_reserved_accounts, orders_per_reserved_account) ==
  insert_one(insert_one(insert_one(coll,
      [name |-> "num_orders", value |-> num_orders]),
      [name |-> "num_reserved_accounts", value |-> num_reserved_accounts]),
      [name |-> "orders_per_reserved_account", value |-> orders_per_reserved_account])

find_constant_latest(name) ==
  LET found == SelectSeq(constants, LAMBDA d : d.name = name)
  IN  IF found = <<>> THEN None ELSE found[Len(found)]

\* find_one on constants: the first document with the name, None without one
find_constant(name) ==
  LET found == SelectSeq(constants, LAMBDA d : d.name = name)
  IN  IF found = <<>> THEN None ELSE Head(found)

\* no account record has the state index
NoRecord(index) == \A i \in 1..Len(accounts) : accounts[i].stateIndex # index

get_account_state_latest(index) ==
  LET found == SelectSeq(accounts, LAMBDA d : d.stateIndex <= index)
  IN  IF found = <<>> THEN None
      ELSE AccountRecord(found[Len(found)].stateIndex, found[Len(found)].stateHash,
                         map_int(found[Len(found)].balances))

get_account_state_defaulting(index) ==
  LET found == SelectSeq(accounts, LAMBDA d : d.stateIndex = index)
  IN  IF found = <<>> THEN AccountRecord(index, "", <<>>)
      ELSE AccountRecord(Head(found).stateIndex, Head(found).stateHash,
                         map_int(Head(found).balances))

get_account_state_newest(index) ==
  IF accounts = <<>> THEN None
  ELSE AccountRecord(accounts[Len(accounts)].stateIndex, accounts[Len(accounts)].stateHash,
                     map_int(accounts[Len(accounts)].balances))

get_account_state(index) ==
  LET found == SelectSeq(accounts, LAMBDA d : d.stateIndex = index)
  IN  IF found = <<>> THEN None
      ELSE AccountRecord(Head(found).stateIndex, Head(found).stateHash,
                         map_int(Head(found).balances))

get_deposits(slot) ==
  LET found == SelectSeq(deposits, LAMBDA d : d.slot = slot)
  IN  [i \in 1..Len(found) |-> Deposit_from_dictionary(found[i])]

get_withdraws_newest_first(slot) ==
  LET found == SelectSeq(withdraws, LAMBDA d : d.slot = slot)
  IN  [i \in 1..Len(found) |-> Withdraw_from_dictionary(found[Len(found) + 1 - i])]

get_withdraws_by_slot_index(slot) ==
  LET found == SortSeq(SelectSeq(withdraws, LAMBDA d : d.slot = slot),
                       LAMBDA a, b : a.slotIndex < b.slotIndex)
  IN  [i \in 1..Len(found) |-> Withdraw_from_dictionary(found[i])]

get_withdraws(slot) ==
  LET found == SelectSeq(withdraws, LAMBDA d : d.slot = slot)
  IN  [i \in 1..Len(found) |-> Withdraw_from_dictionary(found[i])]

\* None stands for the TypeError of subscripting find_one's None
get_num_tokens == IF find_constant("num_tokens") = None THEN None
                  ELSE find_constant("num_tokens").value

get_num_accounts == IF find_constant("num_accounts") = None THEN None
                    ELSE find_constant("num_accounts").value

get_num_orders == IF find_constant("num_orders") = None THEN None
                  ELSE find_constant("num_orders").value

write_order(coll, order) == insert_one(coll, Order_to_dictionary(order))

write_standing_order(coll, standing_order) ==
  insert_one(coll, StandingOrder_to_dictionary(standing_order))

comes_first_earliest(d, auction_id) ==
  /\ d.validFromAuctionId <= auction_id
  /\ \A i \in 1..Len(standing_orders) :
       LET e == standing_orders[i]
       IN  (e.accountId = d.accountId /\ e.validFromAuctionId <= auction_id)
             => \/ e.validFromAuctionId < d.validFromAuctionId
                \/ /\ e.validFromAuctionId = d.validFromAuctionId
                   /\ e._id.oid >= d._id.oid

comes_first_oldest(d, auction_id) ==
  /\ d.validFromAuctionId <= auction_id
  /\ \A i \in 1..Len(standing_orders) :
       LET e == standing_orders[i]
       IN  (e.accountId = d.accountId /\ e.validFromAuctionId <= auction_id)
             => \/ e.validFromAuctionId > d.validFromAuctionId
                \/ /\ e.validFromAuctionId = d.validFromAuctionId
                   /\ e._id.oid <= d._id.oid

comes_first_unmatched(d, auction_id) ==
  \A i \in 1..Len(standing_orders) :
    LET e == standing_orders[i]
    IN  e.accountId = d.accountId
          => \/ e.validFromAuctionId < d.validFromAuctionId
             \/ /\ e.validFromAuctionId = d.validFromAuctionId
                /\ e._id.oid <= d._id.oid

\* $match and $sort of get_orders' pipeline: document d of an account comes
\* first when no matched document of the account sorts before it
comes_first(d, auction_id) ==
  /\ d.validFromAuctionId <= auction_id
  /\ \A i \in 1..Len(standing_orders) :
       LET e == standing_orders[i]
       IN  (e.accountId = d.accountId /\ e.validFromAuctionId <= auction_id)
             => \/ e.validFromAuctionId < d.validFromAuctionId
                \/ /\ e.validFromAuctionId = d.validFromAuctionId
                   /\ e._id.oid <= d._id.oid

\* $group by accountId with $first of each field
aggregate(auction_id) ==
  {[_id |-> standing_orders[i].accountId,
    batchIndex |-> standing_orders[i].batchIndex,
    validFromAuctionId |-> standing_orders[i].validFromAuctionId,
    orders |-> standing_orders[i].orders] :
     i \in {j \in 1..Len(standing_orders) : comes_first(standing_orders[j], auction_id)}}

\* the orders in which a set of documents can be returned
Orderings(S) ==
  {f \in [1..Cardinality(S) -> S] : \A i, j \in 1..Cardinality(S) : f[i] = f[j] => i = j}

RECURSIVE concat_orders(_)
concat_orders(standing) ==
  IF standing = <<>> THEN <<>>
  ELSE StandingOrder_get_orders(StandingOrder_from_db_dictionary(Head(standing)))
         \o concat_orders(Tail(standing))

\* get_orders: $group returns its documents in no specified order, so the
\* result is one of these lists
get_orders(auction_id) ==
  LET found == SelectSeq(orders, LAMBDA d : d.auctionId = auction_id)
      one_shot == [i \in 1..Len(found) |-> Order_from_dictionary(found[i])]
  IN  {one_shot \o concat_orders(standing) : standing \in Orderings(aggregate(auction_id))}

(***************************************************************************)
(* snapp_events/: the handlers.  A handler's result is the name of the     *)
(* exception that left it, or "ok".                                        *)
(***************************************************************************)
zeros(n) == [i \in 1..n |-> 0]

balance_index_transposed(num_tokens, account_id, token_id) ==
  num_tokens * token_id + account_id

\* Balances are stored as [b(a1, t1), b(a1, t2), ... b(a1, T), b(a2, t1), ...]
balance_index(num_tokens, account_id, token_id) == num_tokens * account_id + token_id

has_balance_unchecked(balance, amount) == TRUE

has_balance_strict(balance, amount) == balance - amount > 0

\* the guard of a withdraw's deduction
has_balance(balance, amount) == balance - amount >= 0

replace_valid_toggled(datum) == [datum EXCEPT !.valid = ~datum.valid]

\* datum._replace(valid=True)
replace_valid(datum) == [datum EXCEPT !.valid = TRUE]

\* The loop of StateTransitionReceiver.__update_accounts over the data of the
\* slot: the balances and the withdraw collection after it, and how it ended.
RECURSIVE apply_data(_, _, _, _, _)
apply_data(transition_type, num_tokens, data, balances, coll) ==
  IF data = <<>>
  THEN [balances |-> balances, withdraws |-> coll, raised |-> "ok"]
  ELSE LET datum == Head(data)
           index == balance_index(num_tokens, datum.account_id, datum.token_id)
           at    == Pos(balances, index)
       IN  IF ~InRange(balances, index)
           THEN [balances |-> balances, withdraws |-> coll, raised |-> "IndexError"]
           ELSE IF transition_type = TransitionType_Deposit
           THEN apply_data(transition_type, num_tokens, Tail(data),
                           [balances EXCEPT ![at] = @ + datum.amount], coll)
           ELSE IF transition_type = TransitionType_Withdraw
           THEN IF has_balance(balances[at], datum.amount)
                THEN apply_data(transition_type, num_tokens, Tail(data),
                                [balances EXCEPT ![at] = @ - datum.amount],
                                update_withdraw(coll, datum, replace_valid(datum)))
                ELSE apply_data(transition_type, num_tokens, Tail(data), balances, coll)
           ELSE apply_data(transition_type, num_tokens, Tail(data), balances, coll)

get_data_to_apply_swapped(transition) ==
  IF transition.transition_type = TransitionType_Deposit
  THEN get_withdraws(transition.slot)
  ELSE get_deposits(transition.slot)

\* StateTransitionReceiver.__get_data_to_apply
get_data_to_apply(transition) ==
  IF transition.transition_type = TransitionType_Deposit
  THEN get_deposits(transition.slot)
  ELSE IF transition.transition_type = TransitionType_Withdraw
  THEN get_withdraws(transition.slot)
  ELSE Raised("Exception")

\* what the dispatcher's caller sees of the last event: its name and how its
\* handler ended
Done(name, outcome) == last' = [name |-> name, outcome |-> outcome]

\* DepositReceiver.save
DepositSave(event) ==
  LET deposit == Deposit_from_dictionary(event)
  IN  IF deposit \in {Raised("AssertionError"), Raised("ValueError")}
      THEN /\ Done("Deposit", deposit.raised)
           /\ UNCHANGED store
      ELSE /\ deposits' = write_deposit(deposits, deposit)
           /\ Done("Deposit", "ok")
           /\ UNCHANGED <<constants, accounts, withdraws, orders, standing_orders>>

\* WithdrawRequestReceiver.save
WithdrawRequestSave(event) ==
  LET withdraw == Withdraw_from_dictionary(event)
  IN  IF withdraw \in {Raised("AssertionError"), Raised("ValueError")}
      THEN /\ Done("WithdrawRequest", withdraw.raised)
           /\ UNCHANGED store
      ELSE /\ withdraws' = write_withdraw(withdraws, withdraw)
           /\ Done("WithdrawRequest", "ok")
           /\ UNCHANGED <<constants, accounts, deposits, orders, standing_orders>>

\* SnappInitializationReceiver.save and initialize_accounts
SnappInitializationSave(event) ==
  IF DOMAIN event # {"stateHash", "maxTokens", "maxAccounts"}
  THEN /\ Done("SnappInitialization", "AssertionError")
       /\ UNCHANGED store
  ELSE
  /\ LET account_record ==
           AccountRecord(0, event.stateHash, zeros(event.maxTokens * event.maxAccounts))
     IN  /\ constants' = write_snapp_constants(constants, event.maxTokens, event.maxAccounts)
         /\ accounts' = write_account_state(accounts, account_record)
  /\ Done("SnappInitialization", "ok")
  /\ UNCHANGED <<deposits, withdraws, orders, standing_orders>>

\* AuctionInitializationReceiver.save
AuctionInitializationSave(event) ==
  IF DOMAIN event # {"maxOrders", "numReservedAccounts", "ordersPerReservedAccount"}
  THEN /\ Done("AuctionInitialization", "AssertionError")
       /\ UNCHANGED store
  ELSE
  /\ constants' = write_auction_constants(constants, event.maxOrders,
                      event.numReservedAccounts, event.ordersPerReservedAccount)
  /\ Done("AuctionInitialization", "ok")
  /\ UNCHANGED <<accounts, deposits, withdraws, orders, standing_orders>>

\* the end of StateTransitionReceiver.__update_accounts: the withdraws the loop
\* updated stay updated, the new record is written when the loop did not raise
StateTransition_write(transition, result) ==
  /\ withdraws' = result.withdraws
  /\ IF result.raised = "ok"
     THEN accounts' = write_account_state(accounts,
                        AccountRecord(transition.state_index, transition.state_hash,
                                      result.balances))
     ELSE UNCHANGED accounts
  /\ Done("StateTransition", result.raised)
  /\ UNCHANGED <<constants, deposits, orders, standing_orders>>

\* StateTransitionReceiver.__update_accounts, state the record it reads first
StateTransition_update_accounts(transition, state) ==
  IF state = None \/ find_constant("num_tokens") = None
  THEN /\ Done("StateTransition", "TypeError")
       /\ UNCHANGED store
  ELSE IF transition.transition_type
            \notin {TransitionType_Deposit, TransitionType_Withdraw}
  THEN /\ Done("StateTransition", "Exception")
       /\ UNCHANGED store
  ELSE StateTransition_write(transition,
         apply_data(transition.transition_type, get_num_tokens,
                    get_data_to_apply(transition), state.balances, withdraws))

\* StateTransitionReceiver.save_parsed, reached when the event was parsed
StateTransition_save_parsed(transition, event) ==
  IF transition \in {Raised("AssertionError"), Raised("ValueError")}
  THEN /\ Done("StateTransition", transition.raised)
       /\ UNCHANGED store
  ELSE StateTransition_update_accounts(transition,
                                       get_account_state(event.stateIndex - 1))

\* StateTransitionReceiver.save
StateTransitionSave(event) ==
  StateTransition_save_parsed(StateTransition_from_dictionary(event), event)

\* OrderReceiver.save
OrderSave(event) ==
  LET order == Order_from_dictionary(event)
  IN  IF order \in {Raised("AssertionError"), Raised("ValueError")}
      THEN /\ Done("SellOrder", order.raised)
           /\ UNCHANGED store
      ELSE /\ orders' = write_order(orders, order)
           /\ Done("SellOrder", "ok")
           /\ UNCHANGED <<constants, accounts, deposits, withdraws, standing_orders>>

\* StandingOrderBatchReceiver.save
StandingOrderBatchSave(event) ==
  LET standing_order == StandingOrder_from_dictionary(event)
  IN  IF standing_order \in {Raised("AssertionError"), Raised("ValueError")}
      THEN /\ Done("StandingSellOrderBatch", standing_order.raised)
           /\ UNCHANGED store
      ELSE /\ standing_orders' = write_standing_order(standing_orders, standing_order)
           /\ Done("StandingSellOrderBatch", "ok")
           /\ UNCHANGED <<constants, accounts, deposits, withdraws, orders>>

settle_order_swapped(balances, buy_at, buy_amount, sell_at, sell_amount) ==
  LET sold == [balances EXCEPT ![buy_at] = @ - sell_amount]
  IN  [sold EXCEPT ![sell_at] = @ + buy_amount]

settle_order_if_covered(balances, buy_at, buy_amount, sell_at, sell_amount) ==
  IF balances[sell_at] < sell_amount THEN balances
  ELSE LET bought == [balances EXCEPT ![buy_at] = @ + buy_amount]
       IN  [bought EXCEPT ![sell_at] = @ - sell_amount]

\* balances[buy_index] += buy_amounts[i]; balances[sell_index] -= sell_amounts[i]
settle_order(balances, buy_at, buy_amount, sell_at, sell_amount) ==
  LET bought == [balances EXCEPT ![buy_at] = @ + buy_amount]
  IN  [bought EXCEPT ![sell_at] = @ - sell_amount]

\* The loop of AuctionSettlementReceiver.__update_accounts from the i-th order
\* on (i counts from 0): the balances after it, and how it ended.
RECURSIVE apply_orders(_, _, _, _, _, _)
apply_orders(order_list, i, num_tokens, buy_amounts, sell_amounts, balances) ==
  IF i >= Len(order_list)
  THEN [balances |-> balances, raised |-> "ok"]
  ELSE LET order == order_list[i + 1]
           buy_index == balance_index(num_tokens, order.account_id, order.buy_token)
           sell_index == balance_index(num_tokens, order.account_id, order.sell_token)
       IN  IF \/ ~InRange(balances, buy_index) \/ ~InRange(buy_amounts, i)
              \/ ~InRange(balances, sell_index) \/ ~InRange(sell_amounts, i)
           THEN [balances |-> balances, raised |-> "IndexError"]
           ELSE apply_orders(order_list, i + 1, num_tokens, buy_amounts, sell_amounts,
                             settle_order(balances, Pos(balances, buy_index),
                                          buy_amounts[i + 1],
                                          Pos(balances, sell_index), sell_amounts[i + 1]))

\* the end of AuctionSettlementReceiver.__update_accounts
AuctionSettlement_write(settlement, result) ==
  /\ IF result.raised = "ok"
     THEN accounts' = write_account_state(accounts,
                        AccountRecord(settlement.state_index, settlement.state_hash,
                                      result.balances))
     ELSE UNCHANGED accounts
  /\ Done("AuctionSettlement", result.raised)
  /\ UNCHANGED <<constants, deposits, withdraws, orders, standing_orders>>

\* AuctionSettlementReceiver.__update_accounts, state the record it reads first
AuctionSettlement_update_accounts(settlement, state) ==
  IF state = None
  THEN /\ Done("AuctionSettlement", "TypeError")
       /\ UNCHANGED store
  ELSE \E order_list \in get_orders(settlement.auction_id) :
         AuctionSettlement_write(settlement,
           apply_orders(order_list, 0, get_num_tokens,
                        settlement.prices_and_volumes.buy_amounts,
                        settlement.prices_and_volumes.sell_amounts, state.balances))

\* AuctionSettlementReceiver.save_parsed, reached when the event was parsed
AuctionSettlement_save_parsed(settlement, event) ==
  IF settlement \in {Raised("AssertionError"), Raised("EventParseError")}
  THEN /\ Done("AuctionSettlement", settlement.raised)
       /\ UNCHANGED store
  ELSE AuctionSettlement_update_accounts(settlement,
                                         get_account_state(event.stateIndex - 1))

\* AuctionSettlementReceiver.save
AuctionSettlementSave(event) ==
  IF find_constant("num_tokens") = None \/ find_constant("num_orders") = None
  THEN /\ Done("AuctionSettlement", "TypeError")
       /\ UNCHANGED store
  ELSE AuctionSettlement_save_parsed(
         AuctionSettlement_from_dictionary(event, get_num_tokens, get_num_orders), event)

(***************************************************************************)
(* generic_event_receiver.py: the dispatcher.  A decoded event is its name *)
(* and the list of its parameters, each with its name, its ABI type and    *)
(* its value; the decoder gives a bytes value for a bytes type.            *)
(***************************************************************************)
RECEIVER_MAPPING_crossed ==
  [Deposit |-> [receiver |-> "WithdrawRequestReceiver"],
   WithdrawRequest |-> [receiver |-> "DepositReceiver"],
   StateTransition |-> [receiver |-> "StateTransitionReceiver"],
   SnappInitialization |-> [receiver |-> "SnappInitializationReceiver"],
   SellOrder |-> [receiver |-> "OrderReceiver"],
   AuctionSettlement |-> [receiver |-> "AuctionSettlementReceiver"],
   AuctionInitialization |-> [receiver |-> "AuctionInitializationReceiver"],
   StandingSellOrderBatch |-> [receiver |-> "StandingOrderBatchReceiver"]]

RECEIVER_MAPPING ==
  [Deposit |-> [receiver |-> "DepositReceiver"],
   WithdrawRequest |-> [receiver |-> "WithdrawRequestReceiver"],
   StateTransition |-> [receiver |-> "StateTransitionReceiver"],
   SnappInitialization |-> [receiver |-> "SnappInitializationReceiver"],
   SellOrder |-> [receiver |-> "OrderReceiver"],
   AuctionSettlement |-> [receiver |-> "AuctionSettlementReceiver"],
   AuctionInitialization |-> [receiver |-> "AuctionInitializationReceiver"],
   StandingSellOrderBatch |-> [receiver |-> "StandingOrderBatchReceiver"]]

RECEIVER_MAPPING_get_some(event_name) ==
  IF event_name \in DOMAIN RECEIVER_MAPPING THEN RECEIVER_MAPPING[event_name]
  ELSE RECEIVER_MAPPING["Deposit"]

\* RECEIVER_MAPPING.get(event_name, None)
RECEIVER_MAPPING_get(event_name) ==
  IF event_name \in DOMAIN RECEIVER_MAPPING THEN RECEIVER_MAPPING[event_name]
  ELSE None

\* isinstance(v, bytes) for the value of a parameter
is_bytes(param) == param.type \in {"bytes", "bytes32"}

\* bytes.hex(): two hex digits for every byte
RECURSIVE bytes_hex(_)
bytes_hex(v) ==
  IF v = <<>> THEN <<>>
  ELSE <<Head(v) \div 16, Head(v) % 16>> \o bytes_hex(Tail(v))

\* the dictionary of the parameters by name, the last of a name winning, with
\* the bytes values in hex
parse_event(decoded_event) ==
  LET params == decoded_event.params
      at(k) == CHOOSE i \in 1..Len(params) :
                 /\ params[i].name = k
                 /\ \A j \in (i + 1)..Len(params) : params[j].name # k
  IN  [k \in {params[i].name : i \in 1..Len(params)} |->
         IF is_bytes(params[at(k)]) THEN bytes_hex(params[at(k)].value)
         ELSE params[at(k)].value]

\* listener.save(parsed_event, block_info) of the receiver object
listener_save(listener, parsed_event) ==
  CASE listener.receiver = "DepositReceiver" -> DepositSave(parsed_event)
    [] listener.receiver = "WithdrawRequestReceiver" -> WithdrawRequestSave(parsed_event)
    [] listener.receiver = "StateTransitionReceiver" -> StateTransitionSave(parsed_event)
    [] listener.receiver = "SnappInitializationReceiver" ->
         SnappInitializationSave(parsed_event)
    [] listener.receiver = "OrderReceiver" -> OrderSave(parsed_event)
    [] listener.receiver = "AuctionSettlementReceiver" -> AuctionSettlementSave(parsed_event)
    [] listener.receiver = "AuctionInitializationReceiver" ->
         AuctionInitializationSave(parsed_event)
    [] listener.receiver = "StandingOrderBatchReceiver" ->
         StandingOrderBatchSave(parsed_event)

\* EventDispatcher.save: an event without a receiver is logged as unhandled
\* and the call returns
EventDispatcher_save(decoded_event) ==
  LET listener == RECEIVER_MAPPING_get(decoded_event.name)
  IN  IF listener # None
      THEN listener_save(listener, parse_event(decoded_event))
      ELSE /\ Done(decoded_event.name, "ok")
           /\ UNCHANGED store

\* what the TODO of rollback names: the event's document leaves the store
EventDispatcher_rollback_removing(decoded_event) ==
  /\ last' = [call |-> "rollback", outcome |-> "ok"]
  /\ IF decoded_event.name = "Deposit" /\ deposits # <<>>
     THEN deposits' = SubSeq(deposits, 1, Len(deposits) - 1)
     ELSE UNCHANGED deposits
  /\ UNCHANGED <<constants, accounts, withdraws, orders, standing_orders>>

\* EventDispatcher.rollback: the body is pass, the call returns and the
\* caller sees no exception
EventDispatcher_rollback(decoded_event) ==
  /\ last' = [call |-> "rollback", outcome |-> "ok"]
  /\ UNCHANGED store

(***************************************************************************)
(* The decoded events the listener delivers.                               *)
(***************************************************************************)
BatchEvent(account_id, token_id, amount, slot, slot_index) ==
  [accountId |-> account_id, tokenId |-> token_id, amount |-> str(amount),
   slot |-> slot, slotIndex |-> slot_index]

OrderEvent(auction_id, slot_index, account_id, buy_token, sell_token, buy_amount, sell_amount) ==
  [auctionId |-> auction_id, slotIndex |-> slot_index, accountId |-> account_id,
   buyToken |-> buy_token, sellToken |-> sell_token,
   buyAmount |-> str(buy_amount), sellAmount |-> str(sell_amount)]

RECURSIVE hex(_)
hex(n) == IF n < 16 THEN <<n>> ELSE Append(hex(n \div 16), n % 16)

\* str(hex(t))[2:].rjust(24, "0"), as the tests encode one value
rjust(s, width) == [i \in 1..(width - Len(s)) |-> 0] \o s

RECURSIVE int_list_to_hex_bytes(_)
int_list_to_hex_bytes(arr) ==
  IF arr = <<>> THEN <<>>
  ELSE rjust(hex(Head(arr)), ChunkWidth) \o int_list_to_hex_bytes(Tail(arr))

\* two prices, then the volumes; the last two payloads lack values
Payloads ==
  {int_list_to_hex_bytes(values) :
     values \in {<<1, 1>>, <<1, 1, 2, 1>>, <<1, 1, 2, 1, 1, 3>>, <<1, 1, 2, 1, 1>>, <<1>>}}

SnappInitializationEvents ==
  [stateHash : {"h0"}, maxTokens : {2}, maxAccounts : {2}]

StateTransitionEvents ==
  [transitionType : {TransitionType_Deposit, TransitionType_Withdraw},
   stateIndex : 1..MaxRecords, stateHash : {"h1"}, slot : 0..1]

Init ==
  /\ constants = <<>>
  /\ accounts = <<>>
  /\ deposits = <<>>
  /\ withdraws = <<>>
  /\ orders = <<>>
  /\ standing_orders = <<>>
  /\ last = [name |-> "", outcome |-> "ok"]

(***************************************************************************)
(* Spec: every handler, on a store of at most MaxDocs documents besides    *)
(* the constants.                                                          *)
(***************************************************************************)
Docs == Len(accounts) + Len(deposits) + Len(withdraws) + Len(orders) + Len(standing_orders)

AllSnappInitializationEvents ==
  [stateHash : {"h0"}, maxTokens : {2}, maxAccounts : {1, 2}]

AuctionInitializationEvents ==
  [maxOrders : {1, 2}, numReservedAccounts : {1}, ordersPerReservedAccount : {1}]

AllDepositEvents == {BatchEvent(0, 1, 2, 0, 0), BatchEvent(1, 0, 1, 1, 0)}

AllWithdrawEvents == {BatchEvent(0, 1, 1, 0, 0), BatchEvent(1, 0, 2, 1, 0)}

AllOrderEvents == {OrderEvent(0, 0, 0, 1, 0, 1, 1), OrderEvent(1, 0, 1, 0, 1, 1, 2)}

AllStandingOrderEvents ==
  {[accountId |-> 1, batchIndex |-> 0, validFromAuctionId |-> 0,
    orders |-> <<OrderEvent(0, 0, 1, 1, 0, 1, 1)>>]}

AllStateTransitionEvents ==
  [transitionType : {TransitionType_Deposit, TransitionType_Withdraw},
   stateIndex : 0..2, stateHash : {"h1"}, slot : 0..1]

AllAuctionSettlementEvents ==
  [auctionId : 0..1, stateIndex : 0..2, stateHash : {"h1"},
   pricesAndVolumes : {int_list_to_hex_bytes(values) :
                         values \in {<<1, 1, 2, 1>>, <<1, 1, 2, 1, 1, 3>>, <<1, 1, 2>>}}]

SnappInitialization ==
  \E event \in AllSnappInitializationEvents :
    /\ Docs < MaxDocs
    /\ Len(SelectSeq(constants, LAMBDA d : d.name = "num_tokens")) < MaxInitializations
    /\ SnappInitializationSave(event)

AuctionInitialization ==
  \E event \in AuctionInitializationEvents :
    /\ Len(SelectSeq(constants, LAMBDA d : d.name = "num_orders")) < MaxInitializations
    /\ AuctionInitializationSave(event)

DepositEvent == \E event \in AllDepositEvents : Docs < MaxDocs /\ DepositSave(event)

WithdrawRequest == \E event \in AllWithdrawEvents : Docs < MaxDocs /\ WithdrawRequestSave(event)

SellOrder == \E event \in AllOrderEvents : Docs < MaxDocs /\ OrderSave(event)

StandingSellOrderBatch ==
  \E event \in AllStandingOrderEvents : Docs < MaxDocs /\ StandingOrderBatchSave(event)

StateTransitionEvent ==
  \E event \in AllStateTransitionEvents : Docs < MaxDocs /\ StateTransitionSave(event)

AuctionSettlementEvent ==
  \E event \in AllAuctionSettlementEvents : Docs < MaxDocs /\ AuctionSettlementSave(event)

Next ==
  \/ SnappInitialization
  \/ AuctionInitialization
  \/ DepositEvent
  \/ WithdrawRequest
  \/ SellOrder
  \/ StandingSellOrderBatch
  \/ StateTransitionEvent
  \/ AuctionSettlementEvent

Spec == Init /\ [][Next]_vars

(***************************************************************************)
(* SpecBatch: the deposit and withdraw batches and their transitions.      *)
(***************************************************************************)
BatchDepositEvents ==
  {BatchEvent(0, 1, 2, 0, 0), BatchEvent(1, 0, 1, 1, 0)}

BatchWithdrawEvents ==
  {BatchEvent(0, 1, 2, 0, 0), BatchEvent(0, 1, 1, 0, 1)}

BatchSnappInitialization ==
  \E event \in SnappInitializationEvents :
    accounts = <<>> /\ SnappInitializationSave(event)

BatchDeposit ==
  \E event \in BatchDepositEvents : Len(deposits) < MaxDeposits /\ DepositSave(event)

BatchWithdrawRequest ==
  \E event \in BatchWithdrawEvents :
    Len(withdraws) < MaxWithdraws /\ WithdrawRequestSave(event)

\* the transitions arrive in the order of their state indices
BatchStateTransitionOf(event) ==
  /\ event.stateIndex = Len(accounts)
  /\ Len(accounts) < MaxRecords
  /\ StateTransitionSave(event)

BatchStateTransition ==
  \E event \in StateTransitionEvents : BatchStateTransitionOf(event)

\* transitions of a type that TransitionType does not have
BadStateTransitionEvents ==
  [transitionType : {-1, 2}, stateIndex : 1..MaxRecords, stateHash : {"h1"}, slot : 0..1]

BatchBadStateTransition ==
  \E event \in BadStateTransitionEvents : BatchStateTransitionOf(event)

NextBatch ==
  \/ BatchSnappInitialization
  \/ BatchDeposit
  \/ BatchWithdrawRequest
  \/ BatchStateTransition
  \/ BatchBadStateTransition

SpecBatch == Init /\ [][NextBatch]_vars

(***************************************************************************)
(* SpecAuction: orders, standing orders and auction settlements.           *)
(***************************************************************************)
AuctionOrderEvents ==
  {OrderEvent(0, 0, 0, 1, 0, 1, 1), OrderEvent(0, 1, 1, 0, 1, 1, 2)}

AuctionStandingOrderEvents ==
  {[accountId |-> 1, batchIndex |-> 0, validFromAuctionId |-> v,
    orders |-> <<OrderEvent(0, 0, 1, 1, 0, 1, 1)>>] : v \in 0..1}

AuctionSettlementEvents ==
  [auctionId : 0..1, stateIndex : 1..(AuctionMaxRecords - 1), stateHash : {"h1"},
   pricesAndVolumes : Payloads]

AuctionSnappInitialization ==
  \E event \in SnappInitializationEvents :
    accounts = <<>> /\ SnappInitializationSave(event)

AuctionAuctionInitialization ==
  \E event \in AuctionInitializationEvents :
    find_constant("num_orders") = None /\ AuctionInitializationSave(event)

AuctionSellOrder ==
  \E event \in AuctionOrderEvents : Len(orders) < MaxOrders /\ OrderSave(event)

AuctionStandingSellOrderBatch ==
  \E event \in AuctionStandingOrderEvents :
    Len(standing_orders) < MaxStandingOrders /\ StandingOrderBatchSave(event)

\* the settlements arrive in the order of their state indices
AuctionAuctionSettlementOf(event) ==
  /\ event.stateIndex = Len(accounts)
  /\ Len(accounts) < AuctionMaxRecords
  /\ AuctionSettlementSave(event)

AuctionAuctionSettlement ==
  \E event \in AuctionSettlementEvents : AuctionAuctionSettlementOf(event)

NextAuction ==
  \/ AuctionSnappInitialization
  \/ AuctionAuctionInitialization
  \/ AuctionSellOrder
  \/ AuctionStandingSellOrderBatch
  \/ AuctionAuctionSettlement

SpecAuction == Init /\ [][NextAuction]_vars

(***************************************************************************)
(* SpecInit: the initialization events, delivered more than once, among    *)
(* events of every other kind.                                             *)
(***************************************************************************)
InitDepositEvents == {BatchEvent(0, 1, 2, 0, 0)}

InitWithdrawEvents == {BatchEvent(0, 1, 1, 0, 0)}

InitOrderEvents == {OrderEvent(0, 0, 0, 1, 0, 1, 1)}

InitStateTransitionEvents ==
  [transitionType : {TransitionType_Deposit, TransitionType_Withdraw},
   stateIndex : {1}, stateHash : {"h1"}, slot : {0}]

InitAuctionSettlementEvents ==
  [auctionId : {0}, stateIndex : {1}, stateHash : {"h1"},
   pricesAndVolumes : {int_list_to_hex_bytes(<<1, 1, 2, 1>>)}]

InitSnappInitialization ==
  \E event \in AllSnappInitializationEvents :
    /\ Len(SelectSeq(constants, LAMBDA d : d.name = "num_tokens")) < InitMaxInitializations
    /\ SnappInitializationSave(event)

InitAuctionInitialization ==
  \E event \in AuctionInitializationEvents :
    /\ Len(SelectSeq(constants, LAMBDA d : d.name = "num_orders")) < InitMaxInitializations
    /\ AuctionInitializationSave(event)

\* no batch and no order has been written
NothingPending ==
  deposits = <<>> /\ withdraws = <<>> /\ orders = <<>> /\ standing_orders = <<>>

InitDeposit ==
  \E event \in InitDepositEvents : NothingPending /\ DepositSave(event)

InitWithdrawRequest ==
  \E event \in InitWithdrawEvents : NothingPending /\ WithdrawRequestSave(event)

InitSellOrder ==
  \E event \in InitOrderEvents : NothingPending /\ OrderSave(event)

InitStandingSellOrderBatch ==
  \E event \in AllStandingOrderEvents : NothingPending /\ StandingOrderBatchSave(event)

InitStateTransition ==
  \E event \in InitStateTransitionEvents :
    NoRecord(event.stateIndex) /\ StateTransitionSave(event)

InitAuctionSettlement ==
  \E event \in InitAuctionSettlementEvents :
    NoRecord(event.stateIndex) /\ AuctionSettlementSave(event)

NextInit ==
  \/ InitSnappInitialization
  \/ InitAuctionInitialization
  \/ InitDeposit
  \/ InitWithdrawRequest
  \/ InitSellOrder
  \/ InitStandingSellOrderBatch
  \/ InitStateTransition
  \/ InitAuctionSettlement

SpecInit == Init /\ [][NextInit]_vars

(***************************************************************************)
(* SpecOrders: standing orders that supersede one another, one-shot orders *)
(* and the settlements that read them.                                     *)
(***************************************************************************)
StandingOrderEvent(account_id, batch_index, valid_from_auction_id, order_list) ==
  [accountId |-> account_id, batchIndex |-> batch_index,
   validFromAuctionId |-> valid_from_auction_id, orders |-> order_list]

\* account 0 places a batch from auction 0, replaces it for the same auction,
\* and places a batch of two orders from auction 2; account 1 places one batch
OrdersStandingOrderEvents ==
  {StandingOrderEvent(0, 0, 0, <<OrderEvent(0, 0, 0, 1, 0, 1, 1)>>),
   StandingOrderEvent(0, 1, 0, <<OrderEvent(0, 1, 0, 0, 1, 2, 1)>>),
   StandingOrderEvent(0, 2, 2, <<OrderEvent(2, 0, 0, 1, 0, 3, 1),
                                 OrderEvent(2, 1, 0, 0, 1, 3, 2)>>),
   StandingOrderEvent(1, 0, 0, <<OrderEvent(0, 0, 1, 1, 0, 1, 1)>>)}

OrdersOrderEvents == {OrderEvent(1, 0, 1, 0, 1, 1, 1)}

\* the auctions that are settled and asked for
OrdersAuctions == 0..2

OrdersValues ==
  {<<0, 0, 0, 0>>, <<1, 1, 2, 1>>, <<0, 3, 0, 0, 4, 0>>, <<255, 4096, 7, 65536, 16, 1>>}

OrdersAuctionSettlementEvents ==
  [auctionId : OrdersAuctions, stateIndex : {1}, stateHash : {"h1"},
   pricesAndVolumes : {int_list_to_hex_bytes(values) :
                         values \in {<<0, 0, 0, 0>>, <<1, 1, 2, 1>>}}]

OrdersSnappInitialization ==
  \E event \in SnappInitializationEvents :
    accounts = <<>> /\ SnappInitializationSave(event)

OrdersAuctionInitialization ==
  \E event \in AuctionInitializationEvents :
    find_constant("num_orders") = None /\ AuctionInitializationSave(event)

OrdersSellOrder ==
  \E event \in OrdersOrderEvents : orders = <<>> /\ OrderSave(event)

OrdersStandingSellOrderBatch ==
  \E event \in OrdersStandingOrderEvents :
    Len(standing_orders) < OrdersMaxStandingOrders /\ StandingOrderBatchSave(event)

OrdersAuctionSettlement ==
  \E event \in OrdersAuctionSettlementEvents :
    NoRecord(event.stateIndex) /\ AuctionSettlementSave(event)

NextOrders ==
  \/ OrdersSnappInitialization
  \/ OrdersAuctionInitialization
  \/ OrdersSellOrder
  \/ OrdersStandingSellOrderBatch
  \/ OrdersAuctionSettlement

SpecOrders == Init /\ [][NextOrders]_vars

(***************************************************************************)
(* SpecReplay: the batch events and their transitions, where the listener  *)
(* may deliver an event again: a transition names the state index of the   *)
(* latest record or the one after it.                                      *)
(***************************************************************************)
ReplayDepositEvents == {BatchEvent(0, 1, 2, 0, 0), BatchEvent(1, 0, 1, 0, 1)}

ReplayWithdrawEvents == {BatchEvent(0, 1, 1, 0, 0)}

\* the state hash of a transition tells its type and slot
ReplayStateTransitionEvents ==
  {[transitionType |-> of.transitionType, stateIndex |-> index,
    stateHash |-> of.stateHash, slot |-> of.slot] :
     of \in {[transitionType |-> TransitionType_Deposit, slot |-> 0, stateHash |-> "d0"],
             [transitionType |-> TransitionType_Deposit, slot |-> 1, stateHash |-> "d1"],
             [transitionType |-> TransitionType_Withdraw, slot |-> 0, stateHash |-> "w0"]},
     index \in 1..ReplayMaxRecords}

ReplaySnappInitialization ==
  \E event \in SnappInitializationEvents :
    accounts = <<>> /\ SnappInitializationSave(event)

ReplayDeposit ==
  \E event \in ReplayDepositEvents : Len(deposits) < MaxDeposits /\ DepositSave(event)

ReplayWithdrawRequest ==
  \E event \in ReplayWithdrawEvents :
    Len(withdraws) < MaxWithdraws /\ WithdrawRequestSave(event)

ReplayStateTransitionOf(event) ==
  /\ event.stateIndex \in {Len(accounts) - 1, Len(accounts)}
  /\ Len(accounts) < ReplayMaxRecords
  /\ StateTransitionSave(event)

ReplayStateTransition ==
  \E event \in ReplayStateTransitionEvents : ReplayStateTransitionOf(event)

NextReplay ==
  \/ ReplaySnappInitialization
  \/ ReplayDeposit
  \/ ReplayWithdrawRequest
  \/ ReplayStateTransition

SpecReplay == Init /\ [][NextReplay]_vars

(***************************************************************************)
(* SpecDispatch: decoded events as the listener hands them to the          *)
(* dispatcher: the eight kinds, events that lack a parameter or carry an   *)
(* amount that is no number, and events of other names.                    *)
(***************************************************************************)
\* the type of a parameter in the contract's ABI
abi_type(name) ==
  IF name = "stateHash" THEN "bytes32"
  ELSE IF name = "pricesAndVolumes" THEN "bytes"
  ELSE "uint"

\* the decoded event of a name with the values of the fields, in their order
Decoded(name, fields, values) ==
  [name |-> name,
   params |-> [i \in 1..Len(fields) |->
                 [name |-> fields[i], type |-> abi_type(fields[i]),
                  value |-> values[fields[i]]]]]

\* a state hash: 32 bytes
DispatchHash == [i \in 1..32 |-> 17]

\* the values of a payload, 12 bytes each
RECURSIVE int_list_to_bytes(_)
int_list_to_bytes(arr) ==
  IF arr = <<>> THEN <<>>
  ELSE [i \in 1..((ChunkWidth \div 2) - 1) |-> 0] \o <<Head(arr)>>
         \o int_list_to_bytes(Tail(arr))

DispatchEvents ==
  {Decoded("SnappInitialization", <<"maxTokens", "maxAccounts", "stateHash">>,
           [maxTokens |-> 2, maxAccounts |-> 2, stateHash |-> DispatchHash]),
   Decoded("AuctionInitialization",
           <<"maxOrders", "numReservedAccounts", "ordersPerReservedAccount">>,
           [maxOrders |-> 2, numReservedAccounts |-> 1, ordersPerReservedAccount |-> 1]),
   Decoded("Deposit", <<"accountId", "tokenId", "amount", "slot", "slotIndex">>,
           BatchEvent(0, 1, 2, 0, 0)),
   Decoded("WithdrawRequest", <<"accountId", "tokenId", "amount", "slot", "slotIndex">>,
           BatchEvent(0, 1, 1, 0, 0)),
   Decoded("SellOrder",
           <<"auctionId", "slotIndex", "accountId", "buyToken", "sellToken",
             "buyAmount", "sellAmount">>,
           OrderEvent(0, 0, 0, 1, 0, 1, 1)),
   Decoded("StandingSellOrderBatch",
           <<"accountId", "batchIndex", "validFromAuctionId", "orders">>,
           [accountId |-> 1, batchIndex |-> 0, validFromAuctionId |-> 0,
            orders |-> <<OrderEvent(0, 0, 1, 1, 0, 1, 1)>>]),
   Decoded("StateTransition", <<"transitionType", "stateIndex", "slot", "stateHash">>,
           [transitionType |-> TransitionType_Deposit, stateIndex |-> 1, slot |-> 0,
            stateHash |-> DispatchHash]),
   Decoded("StateTransition", <<"transitionType", "stateIndex", "slot", "stateHash">>,
           [transitionType |-> TransitionType_Withdraw, stateIndex |-> 1, slot |-> 0,
            stateHash |-> DispatchHash]),
   Decoded("AuctionSettlement",
           <<"auctionId", "stateIndex", "pricesAndVolumes", "stateHash">>,
           [auctionId |-> 0, stateIndex |-> 1,
            pricesAndVolumes |-> int_list_to_bytes(<<1, 1, 2, 1>>),
            stateHash |-> DispatchHash])}

\* a decoded event without its last parameter
WithoutLast(decoded_event) ==
  [decoded_event EXCEPT !.params = SubSeq(@, 1, Len(@) - 1)]

\* a decoded event with another value for the parameters of a name
WithValue(decoded_event, name, value) ==
  [decoded_event EXCEPT !.params =
     [i \in 1..Len(@) |-> IF @[i].name = name THEN [@[i] EXCEPT !.value = value]
                          ELSE @[i]]]

\* events that lack a parameter, and events with "f", which is no decimal
\* number, for an amount
MalformedEvents ==
  {WithoutLast(decoded_event) : decoded_event \in DispatchEvents}
    \cup {WithValue(decoded_event, "amount", <<15>>) :
            decoded_event \in {d \in DispatchEvents : d.name \in {"Deposit", "WithdrawRequest"}}}
    \cup {WithValue(decoded_event, "sellAmount", <<15>>) :
            decoded_event \in {d \in DispatchEvents : d.name = "SellOrder"}}
    \cup {WithValue(decoded_event, "orders",
                    <<[OrderEvent(0, 0, 1, 1, 0, 1, 1) EXCEPT !.buyAmount = <<15>>]>>) :
            decoded_event \in {d \in DispatchEvents : d.name = "StandingSellOrderBatch"}}

\* events of the contract that have no receiver
UnhandledEvents ==
  {Decoded("Transfer", <<"accountId", "tokenId", "amount", "slot", "slotIndex">>,
           BatchEvent(0, 1, 2, 0, 0)),
   [name |-> "OwnershipTransferred", params |-> <<>>]}

\* the store stays within MaxDocs documents and MaxInitializations
\* initializations of a kind
DispatchBounded(decoded_event) ==
  /\ Docs < MaxDocs
  /\ decoded_event.name = "SnappInitialization"
       => Len(SelectSeq(constants, LAMBDA d : d.name = "num_tokens")) < MaxInitializations
  /\ decoded_event.name = "AuctionInitialization"
       => Len(SelectSeq(constants, LAMBDA d : d.name = "num_orders")) < MaxInitializations

DispatchOf(decoded_event) ==
  DispatchBounded(decoded_event) /\ EventDispatcher_save(decoded_event)

Dispatch == \E decoded_event \in DispatchEvents : DispatchOf(decoded_event)

DispatchMalformed == \E decoded_event \in MalformedEvents : DispatchOf(decoded_event)

DispatchUnhandled == \E decoded_event \in UnhandledEvents : DispatchOf(decoded_event)

NextDispatch ==
  \/ Dispatch
  \/ DispatchMalformed
  \/ DispatchUnhandled

SpecDispatch == Init /\ [][NextDispatch]_vars

(***************************************************************************)
(* SpecRollback: the dispatcher, where the listener may also roll an event *)
(* back.                                                                   *)
(***************************************************************************)
\* the listener rolls an event back, whatever the store holds
DispatchRollbackOf(decoded_event) == EventDispatcher_rollback(decoded_event)

DispatchRollback ==
  \E decoded_event \in DispatchEvents \cup MalformedEvents \cup UnhandledEvents :
    DispatchRollbackOf(decoded_event)

NextRollback ==
  \/ Dispatch
  \/ DispatchMalformed
  \/ DispatchUnhandled
  \/ DispatchRollback

SpecRollback == Init /\ [][NextRollback]_vars

(***************************************************************************)
(* SpecUnchecked: the batch events, the orders and the transitions of      *)
(* SpecReplay, where the events also carry the values that the handlers    *)
(* take without a check: a negative amount, a token or an account that the *)
(* snapp does not have, an order that sells nothing or buys the token it   *)
(* sells.                                                                  *)
(***************************************************************************)
UncheckedDepositEvents ==
  {BatchEvent(0, 1, 2, 0, 0), BatchEvent(0, 1, -1, 0, 1), BatchEvent(0, 2, 1, 0, 2)}

UncheckedWithdrawEvents == {BatchEvent(0, 1, 1, 0, 0), BatchEvent(2, 0, 1, 0, 1)}

UncheckedOrderEvents ==
  {OrderEvent(0, 0, 0, 1, 1, 1, 1), OrderEvent(0, 1, 0, 1, 0, 1, 0)}

UncheckedDeposit ==
  \E event \in UncheckedDepositEvents : Len(deposits) < MaxDeposits /\ DepositSave(event)

UncheckedWithdrawRequest ==
  \E event \in UncheckedWithdrawEvents :
    Len(withdraws) < MaxWithdraws /\ WithdrawRequestSave(event)

UncheckedSellOrder ==
  \E event \in UncheckedOrderEvents : Len(orders) < MaxOrders /\ OrderSave(event)

NextUnchecked ==
  \/ ReplaySnappInitialization
  \/ UncheckedDeposit
  \/ UncheckedWithdrawRequest
  \/ UncheckedSellOrder
  \/ ReplayStateTransition

SpecUnchecked == Init /\ [][NextUnchecked]_vars

(***************************************************************************)
(* The claims.                                                             *)
(***************************************************************************)
NonNegative(balances) == \A c \in 1..Len(balances) : balances[c] >= 0

\* the record a step appended to accounts
Written == accounts'[Len(accounts')]

RECURSIVE SumOver(_, _)
SumOver(f, S) ==
  IF S = {} THEN 0
  ELSE LET x == CHOOSE x \in S : TRUE IN f[x] + SumOver(f, S \ {x})

\* the amounts of a collection's documents of a slot that address a cell
\* (counted from 0) of a balances vector of num_tokens tokens per account
AmountAt(coll, picked, cell) ==
  SumOver([i \in 1..Len(coll) |-> int(coll[i].amount, 10)],
          {i \in picked : get_num_tokens * coll[i].accountId + coll[i].tokenId = cell})

OfSlot(coll, slot) == {i \in 1..Len(coll) : coll[i].slot = slot}

\* C2: a StateTransition of type Deposit with state index k and slot s, record
\* k-1 being in the store, writes one record with index k and the event's
\* hash; each of its balances is that of record k-1 plus the amounts of the
\* deposits stored for slot s at num_tokens * account_id + token_id.
C2_DepositTransition ==
  [][\A event \in StateTransitionEvents :
       (/\ last'.name = "StateTransition"
        /\ event.transitionType = TransitionType_Deposit
        /\ get_account_state(event.stateIndex - 1) # None
        /\ BatchStateTransitionOf(event))
       => LET previous == get_account_state(event.stateIndex - 1).balances
          IN  /\ Len(accounts') = Len(accounts) + 1
              /\ \A i \in 1..Len(accounts) : accounts'[i] = accounts[i]
              /\ Written.stateIndex = event.stateIndex
              /\ Written.stateHash = event.stateHash
              /\ Len(Written.balances) = Len(previous)
              /\ \A cell \in 0..(Len(previous) - 1) :
                   int(Written.balances[cell + 1], 10) =
                     previous[cell + 1]
                       + AmountAt(deposits, OfSlot(deposits, event.slot), cell)
              /\ withdraws' = withdraws /\ deposits' = deposits]_vars

\* a deposit of slot 0 and a deposit of slot 1 are stored, a transition has
\* added the one of slot 0 on top of record 0, and a second transition has
\* added it again on top of that
C2_Witness ==
  /\ last = [name |-> "StateTransition", outcome |-> "ok"]
  /\ Len(deposits) = 2 /\ deposits[1].slot # deposits[2].slot
  /\ Len(accounts) = 3
  /\ map_int(accounts[2].balances) = <<0, 2, 0, 0>>
  /\ map_int(accounts[3].balances) = <<0, 4, 0, 0>>

\* The withdraws of a slot a transition honours, in the order of the
\* collection: the n-th is honoured when the balance of its cell, less the
\* amounts of the honoured ones before it, is at least its amount.
RECURSIVE Honoured(_, _, _)
Honoured(previous, slot, n) ==
  IF n = 0 THEN {}
  ELSE LET before == Honoured(previous, slot, n - 1)
           w == withdraws[n]
           cell == get_num_tokens * w.accountId + w.tokenId
       IN  IF /\ w.slot = slot
              /\ previous[cell + 1] - AmountAt(withdraws, before, cell) >= int(w.amount, 10)
           THEN before \cup {n}
           ELSE before

\* C3: a StateTransition of type Withdraw for slot s takes the withdraws of
\* the slot in turn: one whose amount the running balance covers is deducted
\* and marked valid, any other changes neither the balance nor its document,
\* and the record is written whichever happened.
C3_WithdrawTransition ==
  [][\A event \in StateTransitionEvents :
       (/\ last'.name = "StateTransition"
        /\ event.transitionType = TransitionType_Withdraw
        /\ get_account_state(event.stateIndex - 1) # None
        /\ BatchStateTransitionOf(event))
       => LET previous == get_account_state(event.stateIndex - 1).balances
              honoured == Honoured(previous, event.slot, Len(withdraws))
          IN  /\ last'.outcome = "ok"
              /\ Len(accounts') = Len(accounts) + 1
              /\ Written.stateIndex = event.stateIndex
              /\ Written.stateHash = event.stateHash
              /\ Len(Written.balances) = Len(previous)
              /\ \A cell \in 0..(Len(previous) - 1) :
                   int(Written.balances[cell + 1], 10) =
                     previous[cell + 1] - AmountAt(withdraws, honoured, cell)
              /\ Len(withdraws') = Len(withdraws)
              /\ \A i \in 1..Len(withdraws) :
                   IF i \in honoured
                   THEN /\ withdraws'[i].valid
                        /\ \A field \in {"accountId", "tokenId", "amount", "slot",
                                         "slotIndex", "_id"} :
                             withdraws'[i][field] = withdraws[i][field]
                   ELSE withdraws'[i] = withdraws[i]]_vars

\* a transition honoured the first withdraw of slot 0, which took the whole
\* balance, and passed over the second
C3_Witness ==
  /\ last = [name |-> "StateTransition", outcome |-> "ok"]
  /\ Len(withdraws) = 2
  /\ withdraws[1].slot = 0 /\ withdraws[1].valid /\ withdraws[1].amount = str(2)
  /\ withdraws[2].slot = 0 /\ ~withdraws[2].valid
  /\ Len(accounts) = 3
  /\ map_int(accounts[2].balances) = <<0, 2, 0, 0>>
  /\ map_int(accounts[3].balances) = <<0, 0, 0, 0>>

\* C4: a withdraw that is valid stays as it is: valid never goes back to
\* false, and honouring a valid withdraw again leaves its document unchanged.
C4_ValidIsLatched ==
  [][/\ Len(withdraws') >= Len(withdraws)
     /\ \A i \in 1..Len(withdraws) :
          withdraws[i].valid => withdraws'[i] = withdraws[i]]_vars

\* the only withdraw stored is valid and was honoured by two transitions, the
\* second of which found it valid
C4_Witness ==
  /\ last = [name |-> "StateTransition", outcome |-> "ok"]
  /\ Len(withdraws) = 1 /\ withdraws[1].valid
  /\ \E i, j, k \in 1..Len(accounts) :
       /\ i < j /\ j < k
       /\ int(accounts[i].balances[2], 10) > int(accounts[j].balances[2], 10)
       /\ int(accounts[j].balances[2], 10) > int(accounts[k].balances[2], 10)

\* C5, as claimed: every record in the store has a predecessor record, the one
\* SnappInitialization wrote included.
C5_EveryRecordHasPredecessor ==
  \A i \in 1..Len(accounts) :
    \E j \in 1..Len(accounts) : accounts[j].stateIndex = accounts[i].stateIndex - 1

\* C5, amended: every record other than a record 0 (which SnappInitialization
\* writes without a predecessor) was written after a record with the state
\* index before its own.
C5_RecordsAfterPredecessor ==
  \A i \in 1..Len(accounts) :
    \/ accounts[i].stateIndex = 0
    \/ \E j \in 1..(i - 1) : accounts[j].stateIndex = accounts[i].stateIndex - 1

\* a chain of three records, each written on top of the one before
C5_Witness ==
  /\ Len(accounts) = 3
  /\ \A i \in 1..3 : accounts[i].stateIndex = i - 1
  /\ last.outcome = "ok"

\* C6, as claimed: a StateTransition or AuctionSettlement that names a state
\* index already in the store adds no second record with that index, so that
\* there is at most one account record per state index.
C6_UsedIndexAddsNoRecord ==
  [][(/\ last'.name \in {"StateTransition", "AuctionSettlement"}
      /\ Len(accounts') > Len(accounts))
       => \A i \in 1..Len(accounts) : accounts[i].stateIndex # Written.stateIndex]_vars

\* C7: a StateTransition or AuctionSettlement leaves every record that was in
\* the store as it was.
C7_WrittenRecordsUnchanged ==
  [][last'.name \in {"StateTransition", "AuctionSettlement"}
       => /\ Len(accounts') >= Len(accounts)
          /\ \A i \in 1..Len(accounts) : accounts'[i] = accounts[i]]_vars

\* a settlement wrote record 1, which differs from record 0, next to it
C7_Witness ==
  /\ last = [name |-> "AuctionSettlement", outcome |-> "ok"]
  /\ Len(accounts) = 2
  /\ accounts[1].stateIndex = 0 /\ accounts[2].stateIndex = 1
  /\ accounts[2].balances # accounts[1].balances

\* what the orders of a list, the i-th with the i-th amount, add to a cell
\* (counted from 0): a buy amount when buying is TRUE, a sell amount otherwise
SettledAt(order_list, amounts, buying, cell) ==
  SumOver([i \in 1..Len(order_list) |-> amounts[i]],
          {i \in 1..Len(order_list) :
             get_num_tokens * order_list[i].account_id
               + (IF buying THEN order_list[i].buy_token ELSE order_list[i].sell_token)
             = cell})

\* the record the settlement of an event wrote is that of record k-1, whose
\* balances are previous, and of the decoded amounts
SettledFrom(event, previous, solution) ==
  /\ Len(accounts') = Len(accounts) + 1
  /\ Written.stateIndex = event.stateIndex
  /\ Written.stateHash = event.stateHash
  /\ Len(Written.balances) = Len(previous)
  /\ \E order_list \in get_orders(event.auctionId) :
       \A cell \in 0..(Len(previous) - 1) :
         int(Written.balances[cell + 1], 10) =
           previous[cell + 1]
             + SettledAt(order_list, solution.buy_amounts, TRUE, cell)
             - SettledAt(order_list, solution.sell_amounts, FALSE, cell)

\* C8: an applied AuctionSettlement of auction A with state index k writes the
\* record with index k and the event's hash whose balances are those of
\* record k-1 with, for the i-th order of get_orders(A), buy_amounts[i] added
\* at num_tokens * account_id + buy_token and sell_amounts[i] subtracted at
\* num_tokens * account_id + sell_token.
C8_SettlementApplied ==
  [][\A event \in AuctionSettlementEvents :
       (/\ last' = [name |-> "AuctionSettlement", outcome |-> "ok"]
        /\ AuctionAuctionSettlementOf(event))
       => SettledFrom(event, get_account_state(event.stateIndex - 1).balances,
                      AuctionSettlement_from_dictionary(
                        event, get_num_tokens, get_num_orders).prices_and_volumes)]_vars

\* a settlement of two orders, of two accounts, with the amounts (2, 1) and
\* (1, 3), was applied on top of record 0
C8_Witness ==
  /\ last = [name |-> "AuctionSettlement", outcome |-> "ok"]
  /\ Len(orders) = 2
  /\ Len(accounts) = 2
  /\ map_int(accounts[2].balances) = <<-1, 2, 1, -3>>

\* the number of values of a payload
Values(payload) == (Len(payload) + ChunkWidth - 1) \div ChunkWidth

HasConstants == find_constant("num_tokens") # None /\ find_constant("num_orders") # None

\* a settlement step that ended with EventParseError and left the store alone
Refused == last'.outcome = "EventParseError" /\ store' = store

C19_BadTransitionWritesNothing ==
  [][\A event \in BadStateTransitionEvents :
       (last'.name = "StateTransition" /\ BatchStateTransitionOf(event))
         => /\ last'.outcome # "ok"
            /\ store' = store]_vars

\* a transition of an unknown type was refused over a store with a deposit of
\* its slot and the record before it
C19_Witness ==
  /\ last = [name |-> "StateTransition", outcome |-> "ValueError"]
  /\ Len(accounts) = 1
  /\ Len(deposits) >= 1 /\ deposits[1].slot = 0
  /\ Len(withdraws) >= 1 /\ ~withdraws[1].valid

\* C20: a StateTransition or AuctionSettlement with state index k, handled
\* when no account record has state index k-1, ends in an error and leaves
\* the store as it was: no record k is written, no withdraw is marked valid.
\* Stated of the steps that end well or change the store: none of them is the
\* handling of an event whose predecessor record is missing.
C20_MissingPredecessorFails ==
  [][/\ (/\ last'.name = "StateTransition"
          /\ (last'.outcome = "ok" \/ store' # store))
         => \A event \in AllStateTransitionEvents :
              NoRecord(event.stateIndex - 1) => ~StateTransitionSave(event)
     /\ (/\ last'.name = "AuctionSettlement"
          /\ (last'.outcome = "ok" \/ store' # store))
         => \A event \in AllAuctionSettlementEvents :
              NoRecord(event.stateIndex - 1) => ~AuctionSettlementSave(event)]_vars

\* a transition failed on a store that has its constants, record 0 only, and
\* a withdraw waiting: the record before the one it names is missing
C20_Witness ==
  /\ last = [name |-> "StateTransition", outcome |-> "TypeError"]
  /\ find_constant("num_tokens") # None
  /\ Len(accounts) = 1 /\ accounts[1].stateIndex = 0
  /\ Len(withdraws) = 1 /\ ~withdraws[1].valid

(***************************************************************************)
(* The initialization events and the constants.                            *)
(***************************************************************************)
\* the documents a step appended to constants
NewConstants == SubSeq(constants', Len(constants) + 1, Len(constants'))

\* C15: a SnappInitialization event {stateHash, maxTokens, maxAccounts}
\* writes the constants num_tokens = maxTokens and num_accounts = maxAccounts
\* and the account record with state index 0, the event's hash and
\* maxTokens * maxAccounts balances, all zero; on a store without constants
\* these are then what the reads return.
C15_SnappInitializationWrites ==
  [][\A event \in AllSnappInitializationEvents :
       (last'.name = "SnappInitialization" /\ SnappInitializationSave(event))
         => /\ SubSeq(constants', 1, Len(constants)) = constants
            /\ [i \in 1..Len(NewConstants) |->
                  <<NewConstants[i].name, NewConstants[i].value>>]
                 = << <<"num_tokens", event.maxTokens>>,
                      <<"num_accounts", event.maxAccounts>> >>
            /\ Len(accounts') = Len(accounts) + 1
            /\ SubSeq(accounts', 1, Len(accounts)) = accounts
            /\ Written.stateIndex = 0
            /\ Written.stateHash = event.stateHash
            /\ Len(Written.balances) = event.maxTokens * event.maxAccounts
            /\ \A c \in 1..Len(Written.balances) : int(Written.balances[c], 10) = 0
            /\ UNCHANGED <<deposits, withdraws, orders, standing_orders>>
            /\ constants = <<>>
                 => /\ get_num_tokens' = event.maxTokens
                    /\ get_num_accounts' = event.maxAccounts]_vars

\* the first SnappInitialization, of two tokens and one account, on a store
\* that already holds an order
C15_Witness ==
  /\ last = [name |-> "SnappInitialization", outcome |-> "ok"]
  /\ get_num_tokens = 2 /\ get_num_accounts = 1
  /\ Len(constants) = 2
  /\ Len(accounts) = 1 /\ map_int(accounts[1].balances) = <<0, 0>>
  /\ Len(orders) = 1

\* C16, as claimed: a SnappInitialization event on a store that already has
\* the snapp constants ends in an error and writes no second set of constants
\* and no second record with state index 0.
C16_SecondInitializationFails ==
  [][(last'.name = "SnappInitialization" /\ find_constant("num_tokens") # None)
       => /\ last'.outcome # "ok"
          /\ constants' = constants
          /\ accounts' = accounts]_vars

\* C17: once a constant has a value, no step changes the value that
\* get_num_tokens, get_num_accounts or get_num_orders returns, a repeated
\* initialization with other values included.
C17_ConstantsKeepTheirValue ==
  [][/\ find_constant("num_tokens") # None => get_num_tokens' = get_num_tokens
     /\ find_constant("num_accounts") # None => get_num_accounts' = get_num_accounts
     /\ find_constant("num_orders") # None => get_num_orders' = get_num_orders]_vars

\* both initializations were repeated with other values than the first ones,
\* a settlement came last, and the reads return the first values
C17_Witness ==
  /\ last = [name |-> "AuctionSettlement", outcome |-> "ok"]
  /\ Len(constants) = 10
  /\ get_num_accounts = 2 /\ find_constant_latest("num_accounts").value = 1
  /\ get_num_orders = 1 /\ find_constant_latest("num_orders").value = 2

\* C18, as claimed: every account record in the store has
\* num_tokens * num_accounts balances.
C18_RecordsHaveConstantLength ==
  \A i \in 1..Len(accounts) :
    Len(accounts[i].balances) = get_num_tokens * get_num_accounts

(***************************************************************************)
(* The layout of the payload.                                              *)
(***************************************************************************)
\* C11: the payload of the values v_0..v_{N+2M-1}, N the number of tokens and
\* M the number of orders, decodes to the prices v_0..v_{N-1}, the buy amounts
\* v_N, v_{N+2}, ... and the sell amounts v_{N+1}, v_{N+3}, ..., in order;
\* values of zero are decoded like any other.
C11_DecodedLayout ==
  HasConstants
    => \A values \in OrdersValues :
         Len(values) = get_num_tokens + 2 * get_num_orders
           => AuctionResults_from_bytes(int_list_to_hex_bytes(values),
                                        get_num_tokens, get_num_orders)
                = AuctionResults(
                    [i \in 1..get_num_tokens |-> values[i]],
                    [i \in 1..get_num_orders |-> values[get_num_tokens + 2 * i - 1]],
                    [i \in 1..get_num_orders |-> values[get_num_tokens + 2 * i]])

\* a settlement of zero prices and zero volumes was applied to an auction
\* that has one order: the balances are those of record 0
C11_Witness ==
  /\ last = [name |-> "AuctionSettlement", outcome |-> "ok"]
  /\ get_num_tokens = 2 /\ get_num_orders = 1
  /\ Len(standing_orders) = 1
  /\ standing_orders[1].accountId = 0 /\ standing_orders[1].validFromAuctionId = 0
  /\ orders = <<>>
  /\ Len(accounts) = 2
  /\ map_int(accounts[2].balances) = <<0, 0, 0, 0>>

(***************************************************************************)
(* The orders of an auction.                                               *)
(***************************************************************************)
\* the standing-order entries of an account that are valid at an auction, by
\* their place in the order of insertion
EntriesAt(account, auction) ==
  {i \in 1..Len(standing_orders) :
     /\ standing_orders[i].accountId = account
     /\ standing_orders[i].validFromAuctionId <= auction}

AccountsAt(auction) ==
  {standing_orders[i].accountId :
     i \in {j \in 1..Len(standing_orders) :
              standing_orders[j].validFromAuctionId <= auction}}

\* the entry with the largest valid_from_auction_id, the one inserted last
\* among those that have it
ActiveAt(account, auction) ==
  CHOOSE i \in EntriesAt(account, auction) :
    \A j \in EntriesAt(account, auction) :
      \/ standing_orders[j].validFromAuctionId < standing_orders[i].validFromAuctionId
      \/ /\ standing_orders[j].validFromAuctionId = standing_orders[i].validFromAuctionId
         /\ j <= i

OrdersOfEntry(entry) ==
  [k \in 1..Len(entry.orders) |-> Order_from_dictionary(entry.orders[k])]

OneShots(auction) ==
  LET found == SelectSeq(orders, LAMBDA d : d.auctionId = auction)
  IN  [i \in 1..Len(found) |-> Order_from_dictionary(found[i])]

RECURSIVE ActiveOrders(_, _)
ActiveOrders(account_list, auction) ==
  IF account_list = <<>> THEN <<>>
  ELSE OrdersOfEntry(standing_orders[ActiveAt(Head(account_list), auction)])
         \o ActiveOrders(Tail(account_list), auction)

\* part is a run of consecutive elements of list
Contains(list, part) ==
  \E k \in 0..(Len(list) - Len(part)) : SubSeq(list, k + 1, k + Len(part)) = part

\* C12: get_orders(A) returns the one-shot orders of auction A followed by,
\* for each account with a standing-order entry valid at A, the orders of its
\* entry with the largest valid_from_auction_id <= A, the last inserted among
\* equals; the accounts come in any order, and no other entry contributes.
C12_OrdersOfAuction ==
  \A auction \in OrdersAuctions :
    get_orders(auction) =
      {OneShots(auction) \o ActiveOrders(account_list, auction) :
         account_list \in Orderings(AccountsAt(auction))}

\* account 0 replaced its batch for auction 0 and placed one from auction 2;
\* a settlement of auction 0 or 1 exchanged the tokens of the replacing batch
C12_Witness ==
  /\ last = [name |-> "AuctionSettlement", outcome |-> "ok"]
  /\ Len(standing_orders) = 3
  /\ [i \in 1..3 |-> standing_orders[i].accountId] = <<0, 0, 0>>
  /\ [i \in 1..3 |-> standing_orders[i].validFromAuctionId] = <<0, 0, 2>>
  /\ [i \in 1..3 |-> standing_orders[i].batchIndex] = <<0, 1, 2>>
  /\ Len(accounts) = 2
  /\ map_int(accounts[2].balances) = <<2, -1, 0, 0>>

\* C13: for auctions A <= B and an account with a standing-order entry valid
\* at A, every result of get_orders(B) contains the orders of an entry of the
\* account whose valid_from_auction_id is at least that of the entry active
\* at A.
C13_ActiveEntryOnlyAdvances ==
  \A A \in OrdersAuctions : \A B \in OrdersAuctions :
    A <= B
      => \A account \in AccountsAt(A) : \A order_list \in get_orders(B) :
           \E i \in 1..Len(standing_orders) :
             /\ standing_orders[i].accountId = account
             /\ standing_orders[i].validFromAuctionId
                  >= standing_orders[ActiveAt(account, A)].validFromAuctionId
             /\ Contains(order_list, OrdersOfEntry(standing_orders[i]))

\* account 0 has a batch from auction 0, settled in auction 0 or 1, and a
\* batch from auction 2 that is the active one there
C13_Witness ==
  /\ last = [name |-> "AuctionSettlement", outcome |-> "ok"]
  /\ Len(standing_orders) = 2
  /\ [i \in 1..2 |-> standing_orders[i].accountId] = <<0, 0>>
  /\ [i \in 1..2 |-> standing_orders[i].validFromAuctionId] = <<0, 2>>
  /\ Len(accounts) = 2
  /\ map_int(accounts[2].balances) = <<-1, 2, 0, 0>>

\* the standing-order entry a step appended
NewEntry == standing_orders'[Len(standing_orders')]

SameCell(slot, n) ==
  {i \in OfSlot(withdraws, slot) :
     /\ withdraws[i].accountId = withdraws[n].accountId
     /\ withdraws[i].tokenId = withdraws[n].tokenId}

InInsertionOrder(slot) ==
  SelectSeq([i \in 1..Len(withdraws) |-> i], LAMBDA i : withdraws[i].slot = slot)

\* the same positions by ascending slotIndex, equal ones as they were stored
BySlotIndex(slot) ==
  SortSeq(InInsertionOrder(slot),
          LAMBDA a, b : \/ withdraws[a].slotIndex < withdraws[b].slotIndex
                        \/ /\ withdraws[a].slotIndex = withdraws[b].slotIndex
                           /\ a < b)

\* The withdraws honoured when the first n positions of an order are taken
\* in turn against the balances of record k-1.
RECURSIVE HonouredIn(_, _, _)
HonouredIn(previous, order, n) ==
  IF n = 0 THEN {}
  ELSE LET before == HonouredIn(previous, order, n - 1)
           w == withdraws[order[n]]
           cell == get_num_tokens * w.accountId + w.tokenId
       IN  IF previous[cell + 1] - AmountAt(withdraws, before, cell) >= int(w.amount, 10)
           THEN before \cup {order[n]}
           ELSE before

\* what a Withdraw transition over record k-1 leaves when it takes the
\* withdraws in an order: the honoured ones valid, every other document as
\* it was, the balances less the honoured amounts
AppliedIn(previous, order) ==
  LET honoured == HonouredIn(previous, order, Len(order))
  IN  /\ \A i \in 1..Len(withdraws) :
           IF i \in honoured THEN withdraws'[i].valid
           ELSE withdraws'[i] = withdraws[i]
      /\ \A cell \in 0..(Len(previous) - 1) :
           int(Written.balances[cell + 1], 10) =
             previous[cell + 1] - AmountAt(withdraws, honoured, cell)

\* C29: a Withdraw transition applies the withdraws of its slot in the order
\* in which they were inserted, which is the order in which their events
\* were dispatched, whatever their slotIndex values are.
C29_AppliedInInsertionOrder ==
  [][\A event \in StateTransitionEvents :
       (/\ last'.name = "StateTransition"
        /\ event.transitionType = TransitionType_Withdraw
        /\ get_account_state(event.stateIndex - 1) # None
        /\ BatchStateTransitionOf(event))
       => AppliedIn(get_account_state(event.stateIndex - 1).balances,
                    InInsertionOrder(event.slot))]_vars

\* the withdraw with slotIndex 1 was dispatched before the one with
\* slotIndex 0; a transition over a balance of 2 honoured the one with
\* slotIndex 1 and passed over the other
C29_Witness ==
  /\ last = [name |-> "StateTransition", outcome |-> "ok"]
  /\ Len(withdraws) = 2
  /\ withdraws[1].slot = withdraws[2].slot
  /\ withdraws[1].slotIndex = 1 /\ withdraws[2].slotIndex = 0
  /\ withdraws[1].valid /\ ~withdraws[2].valid
  /\ Len(accounts) = 3
  /\ map_int(accounts[2].balances) = <<0, 2, 0, 0>>
  /\ map_int(accounts[3].balances) = <<0, 1, 0, 0>>

\* C29 as stated: whatever the order in which the events of a slot were
\* dispatched, a Withdraw transition applies the withdraws of the slot by
\* increasing slotIndex.
C29_AppliedBySlotIndex ==
  [][\A event \in StateTransitionEvents :
       (/\ last'.name = "StateTransition"
        /\ event.transitionType = TransitionType_Withdraw
        /\ get_account_state(event.stateIndex - 1) # None
        /\ BatchStateTransitionOf(event))
       => AppliedIn(get_account_state(event.stateIndex - 1).balances,
                    BySlotIndex(event.slot))]_vars

\* a step that is the settlement of an event, decoded as settlement with an
\* amount for every order of the auction, ended without an error and applied
\* the amounts of every order to the balances of record k-1
AppliedUnchecked(event, previous, settlement) ==
  (/\ settlement # Raised("EventParseError")
   /\ \A order_list \in get_orders(event.auctionId) :
        Len(order_list) <= Len(settlement.prices_and_volumes.buy_amounts)
   /\ AuctionAuctionSettlementOf(event))
  => /\ last'.outcome = "ok"
     /\ SettledFrom(event, previous, settlement.prices_and_volumes)

\* C30: an AuctionSettlement whose payload decodes, with record k-1 in the
\* store and an amount decoded for every order of the auction, ends without
\* an error and writes the record with every order's amounts applied,
\* whatever the amounts are against the balances and the orders' limits.
C30_NoFeasibilityCheck ==
  [][\A event \in AuctionSettlementEvents :
       (/\ last'.name = "AuctionSettlement"
        /\ event.stateIndex = Len(accounts)
        /\ HasConstants)
       => AppliedUnchecked(event, get_account_state(event.stateIndex - 1).balances,
                           AuctionSettlement_from_dictionary(
                             event, get_num_tokens, get_num_orders))]_vars

\* the second order offers 2 of token 1 for 1 of token 0 and its account
\* holds nothing; the settlement took 3 of token 1 from it for 1 of token 0
\* and wrote the record with the balance of -3
C30_Witness ==
  /\ last = [name |-> "AuctionSettlement", outcome |-> "ok"]
  /\ Len(orders) = 2
  /\ orders[2].accountId = 1 /\ orders[2].sellToken = 1
  /\ orders[2].sellAmount = str(2) /\ orders[2].buyAmount = str(1)
  /\ Len(accounts) = 2
  /\ map_int(accounts[1].balances) = <<0, 0, 0, 0>>
  /\ map_int(accounts[2].balances)[3] = 1
  /\ map_int(accounts[2].balances)[4] = -3

\* the latest record is the one a transition of this event has just written
JustApplied(event) ==
  /\ last = [name |-> "StateTransition", outcome |-> "ok"]
  /\ accounts # <<>>
  /\ accounts[Len(accounts)].stateIndex = event.stateIndex
  /\ accounts[Len(accounts)].stateHash = event.stateHash

\* C26: a Deposit transition delivered again right after it was applied ends
\* without an error and adds a record equal, in state index, state hash and
\* balances, to the record it wrote the first time; the earlier records stay
\* and no other collection changes.
C26_ReplayedDepositTransition ==
  [][\A event \in ReplayStateTransitionEvents :
       (/\ last'.name = "StateTransition"
        /\ event.transitionType = TransitionType_Deposit
        /\ JustApplied(event)
        /\ ReplayStateTransitionOf(event))
       => /\ last'.outcome = "ok"
          /\ Len(accounts') = Len(accounts) + 1
          /\ \A i \in 1..Len(accounts) : accounts'[i] = accounts[i]
          /\ Written.stateIndex = accounts[Len(accounts)].stateIndex
          /\ Written.stateHash = accounts[Len(accounts)].stateHash
          /\ Written.balances = accounts[Len(accounts)].balances
          /\ deposits' = deposits /\ withdraws' = withdraws
          /\ constants' = constants /\ orders' = orders
          /\ standing_orders' = standing_orders]_vars

\* the transition of the deposits of slot 0 was applied on record 0 and then
\* delivered again: the store holds two records with state index 1, both
\* with the deposit of 2 added once
C26_Witness ==
  /\ last = [name |-> "StateTransition", outcome |-> "ok"]
  /\ Len(deposits) = 1 /\ deposits[1].slot = 0
  /\ Len(accounts) = 3
  /\ accounts[2].stateIndex = 1 /\ accounts[3].stateIndex = 1
  /\ accounts[2].stateHash = "d0" /\ accounts[3].stateHash = "d0"
  /\ map_int(accounts[2].balances) = <<0, 2, 0, 0>>
  /\ map_int(accounts[3].balances) = <<0, 2, 0, 0>>

\* C27: a Deposit event delivered again right after it was stored leaves
\* the store as the first delivery left it.
C27_ReplayedDepositChangesNothing ==
  [][\A event \in ReplayDepositEvents :
       (/\ last = [name |-> "Deposit", outcome |-> "ok"]
        /\ last'.name = "Deposit"
        /\ deposits # <<>>
        /\ Deposit_from_dictionary(deposits[Len(deposits)]) = Deposit_from_dictionary(event)
        /\ ReplayDeposit
        /\ DepositSave(event))
       => store' = store]_vars

\* C25: every Deposit and every Withdraw the store gives back for a slot is
\* the value that from_dictionary reads from its own to_dictionary.
C25_RoundTrip ==
  \A slot \in 0..1 :
    /\ \A i \in 1..Len(get_deposits(slot)) :
         Deposit_from_dictionary(Deposit_to_dictionary(get_deposits(slot)[i]))
           = get_deposits(slot)[i]
    /\ \A i \in 1..Len(get_withdraws(slot)) :
         Withdraw_from_dictionary(Withdraw_to_dictionary(get_withdraws(slot)[i]))
           = get_withdraws(slot)[i]

Registered(name, parsed_event) ==
  CASE name = "Deposit" -> DepositSave(parsed_event)
    [] name = "WithdrawRequest" -> WithdrawRequestSave(parsed_event)
    [] name = "StateTransition" -> StateTransitionSave(parsed_event)
    [] name = "SnappInitialization" -> SnappInitializationSave(parsed_event)
    [] name = "SellOrder" -> OrderSave(parsed_event)
    [] name = "AuctionSettlement" -> AuctionSettlementSave(parsed_event)
    [] name = "AuctionInitialization" -> AuctionInitializationSave(parsed_event)
    [] name = "StandingSellOrderBatch" -> StandingOrderBatchSave(parsed_event)

\* the names of the events without a receiver
UnhandledNames == {decoded_event.name : decoded_event \in UnhandledEvents}

\* C22: the dispatch of an event whose name has no receiver returns without
\* an error and leaves every collection as it was, and the event dispatched
\* after it goes to its receiver as at any other time.
C22_UnhandledEventChangesNothing ==
  [][/\ \A decoded_event \in UnhandledEvents :
          DispatchOf(decoded_event)
            => /\ store' = store
               /\ last' = [name |-> decoded_event.name, outcome |-> "ok"]
     /\ \A decoded_event \in DispatchEvents :
          (last.name \in UnhandledNames /\ DispatchOf(decoded_event))
            => /\ Registered(decoded_event.name, parse_event(decoded_event))
               /\ last'.name = decoded_event.name]_vars

\* a Transfer event was dispatched when the store held the initial record
\* and a deposit
C22_Witness ==
  /\ last = [name |-> "Transfer", outcome |-> "ok"]
  /\ Len(accounts) = 1 /\ Len(deposits) = 1

\* the collections that the receiver of a name writes to
Written_by(name) ==
  CASE name = "Deposit" -> {"deposits"}
    [] name = "WithdrawRequest" -> {"withdraws"}
    [] name = "StateTransition" -> {"accounts", "withdraws"}
    [] name = "SnappInitialization" -> {"constants", "accounts"}
    [] name = "SellOrder" -> {"orders"}
    [] name = "AuctionSettlement" -> {"accounts"}
    [] name = "AuctionInitialization" -> {"constants"}
    [] name = "StandingSellOrderBatch" -> {"standing_orders"}

\* the collections a step changed
Changed ==
  {name \in {"constants", "accounts", "deposits", "withdraws", "orders", "standing_orders"} :
     CASE name = "constants" -> constants' # constants
       [] name = "accounts" -> accounts' # accounts
       [] name = "deposits" -> deposits' # deposits
       [] name = "withdraws" -> withdraws' # withdraws
       [] name = "orders" -> orders' # orders
       [] name = "standing_orders" -> standing_orders' # standing_orders}

\* C23: the dispatch of an event of one of the eight names is one save of
\* the receiver registered for the name, on the parsed parameters: the step
\* is that save, it is reported under the event's name, and no collection of
\* another receiver changes.
C23_RegisteredHandlerOnly ==
  [][\A decoded_event \in DispatchEvents \cup MalformedEvents :
       DispatchOf(decoded_event)
         => /\ Registered(decoded_event.name, parse_event(decoded_event))
            /\ last'.name = decoded_event.name
            /\ Changed \subseteq Written_by(decoded_event.name)]_vars

\* an AuctionSettlement was applied: before it the two initializations and
\* a SellOrder were dispatched, each to its own receiver
C23_Witness ==
  /\ last = [name |-> "AuctionSettlement", outcome |-> "ok"]
  /\ Len(constants) = 5
  /\ Len(orders) = 1
  /\ Len(accounts) = 2
  /\ deposits = <<>> /\ withdraws = <<>> /\ standing_orders = <<>>

\* a collection after one document was appended to it
AppendedOne(before, after) ==
  Len(after) = Len(before) + 1 /\ SubSeq(after, 1, Len(before)) = before

\* C24: a Deposit, WithdrawRequest, SellOrder or StandingSellOrderBatch event
\* appends one document to the collection of its kind and changes no other
\* collection, the accounts among them; the document of a WithdrawRequest
\* has valid false.
C24_WritersAppendOne ==
  [][\A decoded_event \in DispatchEvents :
       (/\ decoded_event.name \in {"Deposit", "WithdrawRequest", "SellOrder",
                                   "StandingSellOrderBatch"}
        /\ DispatchOf(decoded_event))
       => /\ last'.outcome = "ok"
          /\ accounts' = accounts /\ constants' = constants
          /\ IF decoded_event.name = "Deposit"
             THEN AppendedOne(deposits, deposits') ELSE deposits' = deposits
          /\ IF decoded_event.name = "WithdrawRequest"
             THEN /\ AppendedOne(withdraws, withdraws')
                  /\ withdraws'[Len(withdraws')].valid = FALSE
             ELSE withdraws' = withdraws
          /\ IF decoded_event.name = "SellOrder"
             THEN AppendedOne(orders, orders') ELSE orders' = orders
          /\ IF decoded_event.name = "StandingSellOrderBatch"
             THEN AppendedOne(standing_orders, standing_orders')
             ELSE standing_orders' = standing_orders]_vars

\* a WithdrawRequest was stored, not valid, next to the initial record
C24_Witness ==
  /\ last = [name |-> "WithdrawRequest", outcome |-> "ok"]
  /\ Len(accounts) = 1
  /\ Len(withdraws) = 1 /\ ~withdraws[1].valid
  /\ withdraws[1].amount = str(1)

\* the balances the loop of a transition computes from the record before it,
\* the data it is given and the withdraw collection it updates
LoopBalances(event, data, coll) ==
  apply_data(event.transitionType, get_num_tokens, data,
             get_account_state(event.stateIndex - 1).balances, coll).balances

OfType(events, transition_type) ==
  {event \in events : event.transitionType = transition_type}

AppliedOk(event) ==
  /\ last'.name = "StateTransition"
  /\ last'.outcome = "ok"
  /\ ReplayStateTransitionOf(event)

\* C31: a Withdraw-type transition reads only the withdraw collection and a
\* Deposit-type transition only the deposit collection: the data of a Deposit
\* transition are the deposits of its slot and the record it writes is computed
\* from its predecessor and those deposits, whatever the withdraw collection
\* holds; the data of a Withdraw transition are the withdraws of its slot and
\* the record it writes is computed from its predecessor and those withdraws.
C31_TransitionReadsItsOwnCollection ==
  [][/\ \A event \in OfType(ReplayStateTransitionEvents, TransitionType_Deposit) :
          /\ get_data_to_apply(StateTransition_from_dictionary(event))
               = get_deposits(event.slot)
          /\ AppliedOk(event)
               => map_int(Written.balances)
                    = LoopBalances(event, get_deposits(event.slot), <<>>)
     /\ \A event \in OfType(ReplayStateTransitionEvents, TransitionType_Withdraw) :
          /\ get_data_to_apply(StateTransition_from_dictionary(event))
               = get_withdraws(event.slot)
          /\ AppliedOk(event)
               => map_int(Written.balances)
                    = LoopBalances(event, get_withdraws(event.slot), withdraws)]_vars

\* a Withdraw transition was applied for slot 0 while two deposits of slot 0
\* were stored and no Deposit transition had applied them
C31_Witness ==
  /\ last = [name |-> "StateTransition", outcome |-> "ok"]
  /\ Len(accounts) = 2
  /\ accounts[2].stateHash = "w0"
  /\ map_int(accounts[2].balances) = zeros(4)
  /\ Len(deposits) = 2
  /\ Len(withdraws) >= 1

\* C32: the dispatcher's rollback has no effect: for every event and every
\* store, the call leaves all collections as they are and raises no error.
C32_RollbackChangesNothing ==
  [][\A decoded_event \in DispatchEvents \cup MalformedEvents \cup UnhandledEvents :
       DispatchRollbackOf(decoded_event)
         => /\ store' = store
            /\ last'.outcome = "ok"]_vars

\* a Deposit that was stored has been rolled back and its document is still
\* in the store
C32_Witness ==
  /\ last = [call |-> "rollback", outcome |-> "ok"]
  /\ Len(deposits) = 1
  /\ Len(accounts) = 1

\* the withdraws of a slot that no transition has marked valid yet
NotYetValid(slot) == {i \in OfSlot(withdraws, slot) : ~withdraws[i].valid}

\* C38: the amount of a withdraw is deducted from the balance chain at most
\* once: a Withdraw-type transition takes from a cell no more than the amounts
\* of the withdraws of its slot that were not valid before it.
C38_WithdrawDeductedAtMostOnce ==
  [][\A event \in StateTransitionEvents :
       (/\ last'.name = "StateTransition"
        /\ last'.outcome = "ok"
        /\ event.transitionType = TransitionType_Withdraw
        /\ BatchStateTransitionOf(event))
       => LET previous == get_account_state(event.stateIndex - 1).balances
          IN  \A cell \in 0..(Len(previous) - 1) :
                int(Written.balances[cell + 1], 10) >=
                  previous[cell + 1] - AmountAt(withdraws, NotYetValid(event.slot), cell)]_vars

\* the latest record that a Deposit transition for slot 0 wrote, 0 when
\* there is none
LatestDepositRecord ==
  LET written == {i \in 1..Len(accounts) : accounts[i].stateHash = "d0"}
  IN  IF written = {} THEN 0 ELSE CHOOSE i \in written : \A j \in written : j <= i

\* C39: once the Deposit transition for slot 0 has been applied, every
\* deposit stored for slot 0 is in the balance chain: the record the
\* transition wrote holds, in every cell that no withdraw addresses, at least
\* the amounts of the deposits stored for the slot, those stored after the
\* transition among them.
C39_StoredDepositsReflected ==
  LatestDepositRecord # 0
    => \A cell \in {c \in 0..(Len(accounts[LatestDepositRecord].balances) - 1) :
                      AmountAt(withdraws, OfSlot(withdraws, 0), c) = 0} :
         int(accounts[LatestDepositRecord].balances[cell + 1], 10)
           >= AmountAt(deposits, OfSlot(deposits, 0), cell)

\* C36: a settlement whose payload decodes finds an amount for every order of
\* its auction: the orders that get_orders returns are no more than the
\* decoded buy_amounts, and the loop over them ends without an IndexError.
C36_AmountForEveryOrder ==
  [][\A event \in AuctionSettlementEvents :
       (/\ last'.name = "AuctionSettlement"
        /\ last'.outcome \notin {"AssertionError", "EventParseError", "TypeError"}
        /\ event.stateIndex = Len(accounts)
        /\ HasConstants
        /\ AuctionAuctionSettlementOf(event))
       => LET settlement == AuctionSettlement_from_dictionary(
                              event, get_num_tokens, get_num_orders)
          IN  /\ last'.outcome # "IndexError"
              /\ \A order_list \in get_orders(event.auctionId) :
                   Len(order_list) <= Len(settlement.prices_and_volumes.buy_amounts)]_vars

\* C33: every order that the SellOrder handler stored buys a token other than
\* the one it sells and sells a positive amount: an event that does neither
\* is not stored.
C33_StoredOrdersWellFormed ==
  \A i \in 1..Len(orders) :
    /\ orders[i].buyToken # orders[i].sellToken
    /\ int(orders[i].sellAmount, 10) > 0

\* a transition of SpecUnchecked of the given type was applied and wrote its
\* record
AppliedType(event, transition_type) ==
  /\ last'.name = "StateTransition"
  /\ last'.outcome = "ok"
  /\ event.transitionType = transition_type
  /\ ReplayStateTransitionOf(event)

\* C34: a Deposit-type transition never decreases a balance: every cell of
\* the record it writes is at least the same cell of the record before it,
\* whatever deposits the Deposit handler stored.
C34_DepositNeverDecreases ==
  [][\A event \in ReplayStateTransitionEvents :
       AppliedType(event, TransitionType_Deposit)
         => LET previous == get_account_state(event.stateIndex - 1).balances
            IN  \A cell \in 1..Len(previous) :
                  int(Written.balances[cell], 10) >= previous[cell]]_vars

\* the cells of the accounts that the stored items of a slot name
CellsOf(coll, slot) ==
  {get_num_tokens * coll[i].accountId + token :
     i \in OfSlot(coll, slot), token \in 0..(get_num_tokens - 1)}

\* C35: a deposit or withdraw for (account a, token t) changes only a cell of
\* account a and its index lies inside the balances vector: a transition
\* does not end in an IndexError, and every cell in which its record differs
\* from the record before it belongs to the account of an item of the slot.
C35_OnlyOwnAccountCells ==
  [][\A event \in ReplayStateTransitionEvents :
       (/\ last'.name = "StateTransition"
        /\ last'.outcome \in {"ok", "IndexError"}
        /\ ReplayStateTransitionOf(event))
       => /\ last'.outcome = "ok"
          /\ LET previous == get_account_state(event.stateIndex - 1).balances
                 coll == IF event.transitionType = TransitionType_Deposit
                         THEN deposits ELSE withdraws
             IN  \A cell \in 0..(Len(previous) - 1) :
                   int(Written.balances[cell + 1], 10) # previous[cell + 1]
                     => cell \in CellsOf(coll, event.slot)]_vars

\* C37: a withdraw is valid only when the AccountRecord that deducted it was
\* written: a transition that marks a withdraw valid writes its record.
C37_ValidOnlyWithRecord ==
  [][(last'.name = "StateTransition" /\ withdraws' # withdraws)
       => /\ last'.outcome = "ok"
          /\ Len(accounts') = Len(accounts) + 1]_vars

====
